---- MODULE Spec2Model ----
(***************************************************************************)
(* Model of the citation checker: the full-citation pipeline               *)
(* (newcitechecker.py), the short-citation resolver state last_short_key,  *)
(* and the single-shot repair loop (citationfixer.py).                     *)
(*                                                                         *)
(* Texts are sequences of one-character strings; offsets reported by the   *)
(* code (str.find, len) are kept 0-based as in Python.                     *)
(***************************************************************************)
EXTENDS Integers, Sequences, FiniteSets, TLC

\* Python's None: for a text, for a court level, for a dict
None == <<"None">>

NoLevel == "None"

NoneRec == [is_none |-> TRUE]

\* the empty dict {}
EmptyDict == [is_empty |-> TRUE]

(***************************************************************************)
(* Character classes and Python string primitives                          *)
(***************************************************************************)
Digits == {"0","1","2","3","4","5","6","7","8","9"}

UpperSeq == <<"A","B","C","D","E","F","G","H","I","J","K","L","M",
              "N","O","P","Q","R","S","T","U","V","W","X","Y","Z">>

LowerSeq == <<"a","b","c","d","e","f","g","h","i","j","k","l","m",
              "n","o","p","q","r","s","t","u","v","w","x","y","z">>

UpperSet == {UpperSeq[i] : i \in 1..Len(UpperSeq)}

LowerSet == {LowerSeq[i] : i \in 1..Len(LowerSeq)}

Letters == UpperSet \cup LowerSet

\* \s restricted to the whitespace the inputs contain
Space == {" "}

\* the class [A-Za-z\.'] of the volume/reporter/page checks
RepCls == Letters \cup {".", "'"}

\* \w
WordCls == Letters \cup Digits \cup {"_"}

ToLowerChar(c) ==
  IF c \in UpperSet THEN LowerSeq[CHOOSE i \in 1..Len(UpperSeq) : UpperSeq[i] = c] ELSE c

\* str.lower()
Lower(t) == [i \in 1..Len(t) |-> ToLowerChar(t[i])]

Min(S) == CHOOSE x \in S : \A y \in S : x <= y

Max(S) == CHOOSE x \in S : \A y \in S : x >= y

\* t[a:b] for 0 <= a, 0 <= b (Python slice, 0-based, end exclusive)
PySlice(t, a, b) ==
  LET hi == IF b > Len(t) THEN Len(t) ELSE b
  IN IF a >= hi THEN <<>> ELSE [i \in 1..(hi - a) |-> t[a + i]]

\* str.find(c) for a one-character needle: 0-based index or -1
Find(t, c) ==
  LET S == {i \in 1..Len(t) : t[i] = c}
  IN IF S = {} THEN -1 ELSE Min(S) - 1

\* str.rfind(c) for a one-character needle
RFind(t, c) ==
  LET S == {i \in 1..Len(t) : t[i] = c}
  IN IF S = {} THEN -1 ELSE Max(S) - 1

\* 1-based: does `pat` occur in t starting at position i
MatchAt(t, i, pat) ==
  /\ i >= 1
  /\ i + Len(pat) - 1 <= Len(t)
  /\ \A k \in 1..Len(pat) : t[i + k - 1] = pat[k]

\* `pat in t`
Contains(t, pat) == \E i \in 1..(Len(t) + 1) : MatchAt(t, i, pat)

\* str.startswith
StartsWith(t, pat) == MatchAt(t, 1, pat)

\* str.endswith
EndsWith(t, pat) == Len(pat) <= Len(t) /\ MatchAt(t, Len(t) - Len(pat) + 1, pat)

\* 1-based: first position j >= i with t[j] \notin S (Len(t)+1 when none):
\* the end of a greedy run of a character class
SkipWhile(t, i, S) ==
  LET Stop == {j \in i..Len(t) : t[j] \notin S}
  IN IF Stop = {} THEN (IF i > Len(t) THEN i ELSE Len(t) + 1) ELSE Min(Stop)

AllIn(t, S) == \A i \in 1..Len(t) : t[i] \in S

\* str.strip() / str.rstrip() over whitespace
LStrip(t) == PySlice(t, SkipWhile(t, 1, Space) - 1, Len(t))

RStripSet(t, S) ==
  LET Keep == {j \in 1..Len(t) : t[j] \notin S}
  IN IF Keep = {} THEN <<>> ELSE PySlice(t, 0, Max(Keep))

Strip(t) == RStripSet(LStrip(t), Space)

\* str.isdigit()
IsDigitStr(t) == Len(t) > 0 /\ AllIn(t, Digits)

\* int(s) for a digit string
RECURSIVE ToInt(_)
ToInt(t) ==
  IF Len(t) = 0 THEN 0
  ELSE 10 * ToInt(PySlice(t, 0, Len(t) - 1))
       + (CHOOSE d \in 0..9 : <<"0","1","2","3","4","5","6","7","8","9">>[d + 1] = t[Len(t)])

\* 1-based: first position j >= i with t[j] \in S (Len(t)+1 when none)
SkipUntil(t, i, S) ==
  LET Stop == {j \in i..Len(t) : t[j] \in S}
  IN IF Stop = {} THEN (IF i > Len(t) THEN i ELSE Len(t) + 1) ELSE Min(Stop)

\* str.split() on whitespace: the list of maximal non-space runs
RECURSIVE SplitWords(_)
SplitWords(t) ==
  LET s == SkipWhile(t, 1, Space)
      e == SkipUntil(t, s, Space)
  IN IF s > Len(t) THEN <<>>
     ELSE <<PySlice(t, s - 1, e - 1)>> \o SplitWords(PySlice(t, e - 1, Len(t)))

(***************************************************************************)
(* Lookup tables of the constants module                                   *)
(***************************************************************************)
R_US == <<"U",".","S",".">>

R_F2d == <<"F",".","2","d">>

R_F == <<"F",".">>

R_NY == <<"N",".","Y",".">>

ALLOWED_REPORTERS == {R_US, R_F2d, R_F, R_NY}

\* federal court level -> reporters allowed for it
COURT_REPORTER_MAPPING ==
  [l \in {"Supreme Court", "Court of Federal Claims", "Tax Court", "Court of Appeals",
          "District Courts", "Military Service", "Veterans' Appeals"} |->
     CASE l = "Supreme Court" -> {R_US}
       [] l = "Court of Federal Claims" -> {<<"F","e","d","."," ","C","l",".">>}
       [] l = "Tax Court" -> {<<"T",".","C",".">>}
       [] l = "Court of Appeals" -> {R_F, R_F2d}
       [] l = "District Courts" -> {<<"F","."," ","S","u","p","p",".">>}
       [] l = "Military Service" -> {<<"M",".","J",".">>}
       [] l = "Veterans' Appeals" -> {<<"V","e","t","."," ","A","p","p",".">>}]

\* state -> reporters allowed for it
STATE_COURT_REPORTER_MAPPING == [l \in {"New York"} |-> {R_NY}]

\* full month name -> abbreviation, in the order of the alternation
MONTH_ABBREVIATIONS == << <<<<"M","a","r","c","h">>, <<"M","a","r",".">>>> >>

\* journal name -> abbreviation, in the order of the alternation
JOURNAL_ABBREVIATIONS == << <<<<"H","a","r","v","a","r","d"," ","L","a","w"," ","R","e","v","i","e","w">>, <<"H","a","r","v","."," ","L","."," ","R","e","v",".">>>> >>

\* introductory signals, in matching order
CITATION_SIGNALS_ORDERED == <<<<"S","e","e">>>>

\* signals as they are marked inside quotes
VALID_CITATION_SIGNALS == <<<<"*","S","e","e","*">>>>

\* sorted(map(re.escape, ALLOWED_REPORTERS), key=len, reverse=True)
allowed_reporters_regex == <<R_F2d, R_US, R_NY, R_F>>

(***************************************************************************)
(* Text normalizer                                                         *)
(***************************************************************************)
\* \b at 1-based position i (between t[i-1] and t[i])
WordBoundary(t, i) ==
  LET before == i >= 2 /\ i - 1 <= Len(t) /\ t[i - 1] \in WordCls
      after == i >= 1 /\ i <= Len(t) /\ t[i] \in WordCls
  IN before # after

\* (?=[^)]*\b\d{4}\)) at position e
YearParenAhead(t, e) ==
  \E j \in e..(Len(t) - 4) :
    /\ \A k \in e..(j - 1) : t[k] # ")"
    /\ WordBoundary(t, j)
    /\ IsDigitStr(PySlice(t, j - 1, j + 3))
    /\ t[j + 4] = ")"

\* index of the first month whose name matches at i, 0 when none
MonthAt(t, i) ==
  LET M == {k \in 1..Len(MONTH_ABBREVIATIONS) :
              /\ MatchAt(t, i, MONTH_ABBREVIATIONS[k][1])
              /\ WordBoundary(t, i)
              /\ YearParenAhead(t, i + Len(MONTH_ABBREVIATIONS[k][1]))}
  IN IF M = {} THEN 0 ELSE Min(M)

\* the substitution, from position i on: copy up to the next match, replace it
RECURSIVE SubMonths(_, _)
SubMonths(t, i) ==
  LET M == {j \in i..Len(t) : MonthAt(t, j) # 0}
  IN IF M = {} THEN PySlice(t, i - 1, Len(t))
     ELSE LET j == Min(M)
              k == MonthAt(t, j)
          IN PySlice(t, i - 1, j - 1) \o MONTH_ABBREVIATIONS[k][2]
             \o SubMonths(t, j + Len(MONTH_ABBREVIATIONS[k][1]))

abbreviate_months_in_citation(text) == SubMonths(text, 1)

\* (?=\s+\d+\s+[A-Za-z\.]+\s+\d+) at position e
VolRepPageAhead(t, e) ==
  LET d1 == SkipWhile(t, e, Space)
      s1 == SkipWhile(t, d1, Digits)
      r1 == SkipWhile(t, s1, Space)
      s2 == SkipWhile(t, r1, Letters \cup {"."})
      d2 == SkipWhile(t, s2, Space)
  IN /\ d1 > e
     /\ s1 > d1
     /\ r1 > s1
     /\ s2 > r1
     /\ d2 > s2
     /\ d2 <= Len(t)
     /\ t[d2] \in Digits

\* index of the first journal whose name matches at i ignoring case, 0 when none
JournalAt(t, i) ==
  LET J == {k \in 1..Len(JOURNAL_ABBREVIATIONS) :
              /\ MatchAt(Lower(t), i, Lower(JOURNAL_ABBREVIATIONS[k][1]))
              /\ WordBoundary(t, i)
              /\ VolRepPageAhead(t, i + Len(JOURNAL_ABBREVIATIONS[k][1]))}
  IN IF J = {} THEN 0 ELSE Min(J)

RECURSIVE SubJournals(_, _)
SubJournals(t, i) ==
  LET J == {j \in i..Len(t) : JournalAt(t, j) # 0}
  IN IF J = {} THEN PySlice(t, i - 1, Len(t))
     ELSE LET j == Min(J)
              k == JournalAt(t, j)
          IN PySlice(t, i - 1, j - 1) \o JOURNAL_ABBREVIATIONS[k][2]
             \o SubJournals(t, j + Len(JOURNAL_ABBREVIATIONS[k][1]))

abbreviate_journals_in_citation(text) == SubJournals(text, 1)

(***************************************************************************)
(* The case grammar CITATION_PATTERN                                       *)
(***************************************************************************)
NoMatch == [matched |-> FALSE]

\* a match with further named groups; no match stays no match
WithGroups(m, groups) ==
  IF m.matched
  THEN [f \in DOMAIN m \cup DOMAIN groups |-> IF f \in DOMAIN groups THEN groups[f] ELSE m[f]]
  ELSE NoMatch

\* backtracking: the first alternative when it matches, else the second
OrElse(a, b) == IF a.matched THEN a ELSE b

\* \s*\((?P<court>.+?)\s+(?P<year>\d{4})\)$ tried at 1-based position k
CourtYear(t, k) ==
  LET n == Len(t)
      u == SkipWhile(t, k, Space)
      \* last positions of the court group after which only \s+ and the year remain
      Ends == {e \in (u + 1)..(n - 6) : AllIn(PySlice(t, e, n - 5), Space)}
  IN IF /\ n >= 8
        /\ u <= n
        /\ t[u] = "("
        /\ t[n] = ")"
        /\ IsDigitStr(PySlice(t, n - 5, n - 1))
        /\ Ends # {}
     THEN [matched |-> TRUE,
           court |-> PySlice(t, u, Min(Ends)),   \* lazy: the shortest court
           year |-> PySlice(t, n - 5, n - 1)]
     ELSE NoMatch

\* (?:,\s*(?P<pinpoint>\d+(?:-\d+)?))? followed by the parenthetical, tried at
\* position q in the engine's order: range pinpoint, plain pinpoint, no pinpoint
PinThenCourt(t, q) ==
  LET s1 == SkipWhile(t, q + 1, Space)
      d1 == SkipWhile(t, s1, Digits)
      d2 == SkipWhile(t, d1 + 1, Digits)
      hasPin == q <= Len(t) /\ t[q] = "," /\ d1 > s1
      hasRange == hasPin /\ d1 <= Len(t) /\ t[d1] = "-" /\ d2 > d1 + 1
      A1 == IF hasRange
            THEN WithGroups(CourtYear(t, d2), [pinpoint |-> PySlice(t, s1 - 1, d2 - 1)])
            ELSE NoMatch
      A2 == IF hasPin
            THEN WithGroups(CourtYear(t, d1), [pinpoint |-> PySlice(t, s1 - 1, d1 - 1)])
            ELSE NoMatch
      B == WithGroups(CourtYear(t, q), [pinpoint |-> None])
  IN OrElse(A1, OrElse(A2, B))

\* \s+(?P<page>\d+) and the rest, tried at position r (just after the reporter)
PageThenRest(t, r) ==
  LET q2 == SkipWhile(t, r, Space)
      q3 == SkipWhile(t, q2, Digits)
  IN IF q2 > r /\ q3 > q2
     THEN WithGroups(PinThenCourt(t, q3), [page |-> PySlice(t, q2 - 1, q3 - 1)])
     ELSE NoMatch

\* (?P<reporter>...) and the rest, tried at position p: the alternatives from the
\* k-th on in their order, the first that leads to an overall match
RECURSIVE ReporterThenRest(_, _, _)
ReporterThenRest(t, p, k) ==
  IF k > Len(allowed_reporters_regex) THEN NoMatch
  ELSE IF MatchAt(t, p, allowed_reporters_regex[k])
  THEN OrElse(WithGroups(PageThenRest(t, p + Len(allowed_reporters_regex[k])),
                         [reporter |-> allowed_reporters_regex[k]]),
              ReporterThenRest(t, p, k + 1))
  ELSE ReporterThenRest(t, p, k + 1)

\* (?=\s*\d+\s)\s*(?P<volume>\d+)\s+(?P<reporter>...)... tried at position i
\* (just after the comma that ends the case name)
VolumeThenRest(t, i) ==
  LET p1 == SkipWhile(t, i, Space)
      p2 == SkipWhile(t, p1, Digits)
      p3 == SkipWhile(t, p2, Space)
  IN IF p2 > p1 /\ p3 > p2
     THEN WithGroups(ReporterThenRest(t, p3, 1), [volume |-> PySlice(t, p1 - 1, p2 - 1)])
     ELSE NoMatch

\* ^(?P<case_name>.+), with Rest[i] the match of what follows the comma at i:
\* the group is greedy, it ends at the last comma after which the rest matches
CaseNameThenRest(t, Rest) ==
  LET Commas == {i \in DOMAIN Rest : Rest[i].matched}
  IN IF Commas = {} THEN NoMatch
     ELSE WithGroups(Rest[Max(Commas)], [case_name |-> PySlice(t, 0, Max(Commas) - 1)])

\* CITATION_PATTERN.match(t): m.groupdict() with matched |-> TRUE, or NoMatch.
CITATION_PATTERN(t) ==
  CaseNameThenRest(t, [i \in {j \in 2..Len(t) : t[j] = ","} |-> VolumeThenRest(t, i + 1)])

\* m.groupdict(): the record without the match flag
GroupDict(m) == [f \in (DOMAIN m) \ {"matched"} |-> m[f]]

(***************************************************************************)
(* Case-name normalizer                                                    *)
(***************************************************************************)
\* str.find(pat) for a text pat: 0-based index of the first occurrence, -1 when none
FindSub(t, pat) ==
  LET Hit == {i \in 1..Len(t) : MatchAt(t, i, pat)}
  IN IF Hit = {} THEN -1 ELSE Min(Hit) - 1

\* t.split(',', 1)[0]
BeforeComma(t) == IF Find(t, ",") = -1 THEN t ELSE PySlice(t, 0, Find(t, ","))

\* re.sub from the 1-based position i on: End[j] is the position after the match
\* that starts at j, 0 when the pattern does not match there
RECURSIVE ReSub(_, _, _, _)
ReSub(t, i, End, repl) ==
  IF i > Len(t) THEN <<>>
  ELSE IF End[i] > 0 THEN repl \o ReSub(t, End[i], End, repl)
  ELSE <<t[i]>> \o ReSub(t, i + 1, End, repl)

\* \b(of|County|Township|Village|District)\s+[A-Za-z ]+ at j, ignoring case: the
\* position after the match, 0 when none
LocationalEnd(t, j) ==
  LET W == {w \in {<<"o","f">>, <<"c","o","u","n","t","y">>, <<"t","o","w","n","s","h","i","p">>,
                   <<"v","i","l","l","a","g","e">>, <<"d","i","s","t","r","i","c","t">>} :
              MatchAt(Lower(t), j, w)}
      a == j + Len(CHOOSE w \in W : TRUE)
      s == SkipWhile(t, a, Space)
      e == SkipWhile(t, s, Letters \cup {" "})
  IN IF ~WordBoundary(t, j) \/ W = {} THEN 0
     ELSE IF s = a THEN 0
     ELSE IF e > s THEN e
     ELSE IF s - a >= 2 THEN s
     ELSE 0

\* \b(Inc|Ltd|N\.A\.|F\.S\.B\.),?\s* at j: the position after the match, 0 when none
SuffixEnd(t, j) ==
  LET W == {w \in {<<"I","n","c">>, <<"L","t","d">>, <<"N",".","A",".">>, <<"F",".","S",".","B",".">>} :
              MatchAt(t, j, w)}
      a == j + Len(CHOOSE w \in W : TRUE)
      c == IF a <= Len(t) /\ t[a] = "," THEN a + 1 ELSE a
  IN IF ~WordBoundary(t, j) \/ W = {} THEN 0 ELSE SkipWhile(t, c, Space)

\* _last(p)
LastWord(p) == IF Len(SplitWords(p)) > 1 THEN SplitWords(p)[Len(SplitWords(p))] ELSE p

\* [raised |-> FALSE, name |-> the short name], or [raised |-> TRUE] when the
\* unpacking of step 11 fails
omit_words_in_case_name(name) ==
  LET V == <<" ", "v", ".", " ">>
      n1 == IF MatchAt(Lower(name), 1, <<"t","h","e">>) /\ SkipWhile(name, 4, Space) > 4
            THEN PySlice(name, SkipWhile(name, 4, Space) - 1, Len(name))
            ELSE name
      n2 == Strip(BeforeComma(n1))
      n3 == IF FindSub(n2, V) # -1
            THEN PySlice(n2, 0, FindSub(n2, V)) \o V
                   \o BeforeComma(PySlice(n2, FindSub(n2, V) + 4, Len(n2)))
            ELSE n2
      n4 == IF StartsWith(Lower(n3), <<"i","n"," ","r","e">>) THEN BeforeComma(n3) ELSE n3
      D == {j \in 1..Len(n4) :
              /\ WordBoundary(n4, j)
              /\ \E w \in {<<"t","r","u","s","t","e","e">>,
                            <<"e","x","e","c","u","t","o","r">>,
                            <<"a","d","m","i","n","i","s","t","r","a","t","o","r">>,
                            <<"a","d","m","i","n","i","s","t","r","a","t","r","i","x">>} :
                   MatchAt(Lower(n4), j, w) /\ WordBoundary(n4, j + Len(w))}
      n6 == Strip(IF D = {} THEN n4 ELSE PySlice(n4, 0, Min(D) - 1))
      n7 == ReSub(n6, 1,
                  [j \in 1..Len(n6) |->
                     IF /\ WordBoundary(n6, j)
                        /\ MatchAt(Lower(n6), j, <<"s","t","a","t","e"," ","o","f">>)
                        /\ SkipWhile(n6, j + 8, Space) > j + 8
                     THEN SkipWhile(n6, j + 8, Space) ELSE 0],
                  <<"S","t","a","t","e"," ">>)
      n8 == ReSub(n7, 1,
                  [j \in 1..Len(n7) |->
                     IF /\ j > 1
                        /\ WordBoundary(n7, j)
                        /\ MatchAt(Lower(n7), j, <<"c","i","t","y"," ","o","f">>)
                        /\ SkipWhile(n7, j + 7, Space) > j + 7
                     THEN SkipWhile(n7, j + 7, Space) ELSE 0],
                  <<>>)
      n9 == ReSub(n8, 1, [j \in 1..Len(n8) |-> LocationalEnd(n8, j)], <<>>)
      n10 == ReSub(n9, 1,
                   [j \in 1..Len(n9) |->
                      IF MatchAt(Lower(n9), j, <<"u","n","i","t","e","d"," ","s","t","a","t","e","s"," ","o","f"," ","a","m","e","r","i","c","a">>)
                      THEN j + 24 ELSE 0],
                   <<"U","n","i","t","e","d"," ","S","t","a","t","e","s">>)
      a == PySlice(n10, 0, FindSub(n10, V))
      b == PySlice(n10, FindSub(n10, V) + 4, Len(n10))
      n11 == IF FindSub(n10, V) # -1 THEN LastWord(a) \o V \o LastWord(b) ELSE LastWord(n10)
      marker == \E j \in 1..Len(n11) :
                  /\ WordBoundary(n11, j)
                  /\ \E w \in {<<"C","o">>, <<"C","o","r","p">>, <<"A","s","s","'","n">>} :
                       MatchAt(n11, j, w) /\ WordBoundary(n11, j + Len(w))
      n12 == IF marker
             THEN ReSub(n11, 1, [j \in 1..Len(n11) |-> SuffixEnd(n11, j)], <<>>)
             ELSE n11
  IN IF FindSub(n10, V) # -1 /\ FindSub(b, V) # -1
     THEN [raised |-> TRUE]
     ELSE [raised |-> FALSE, name |-> Strip(n12)]

(***************************************************************************)
(* Structural validator                                                    *)
(***************************************************************************)
CitationError(message, start, end, field) ==
  [message |-> message, start |-> start, end |-> end, field |-> field]

\* citation.split('(', 1)[0]
PrefixBeforeParen(citation) ==
  IF Find(citation, "(") = -1 THEN citation ELSE PySlice(citation, 0, Find(citation, "("))

\* re.search(r"\d+\s+[A-Za-z\.']+\s+\d+", prefix)
HasVolumeReporterPage(prefix) ==
  \E a \in 1..Len(prefix) :
    LET s1 == SkipWhile(prefix, a + 1, Space)
        r1 == SkipWhile(prefix, s1, RepCls)
        s2 == SkipWhile(prefix, r1, Space)
    IN /\ prefix[a] \in Digits
       /\ s1 > a + 1
       /\ r1 > s1
       /\ s2 > r1
       /\ s2 <= Len(prefix)
       /\ prefix[s2] \in Digits

\* the validator stopping at the first check that fails
_collect_format_errors_first_only(citation) ==
  LET hasParens == Find(citation, "(") # -1 /\ Find(citation, ")") # -1
      prefix == PrefixBeforeParen(citation)
      inner == PySlice(citation, Find(citation, "(") + 1, RFind(citation, ")"))
      \* inner.rsplit(' ', 1)
      sp == RFind(inner, " ")
      court_part == PySlice(inner, 0, sp)
      year_part == PySlice(inner, sp + 1, Len(inner))
      e1 == IF ~hasParens
            THEN <<CitationError(<<"Missing parentheses around court and year", <<>>>>,
                                 0, Len(citation), "parentheses")>>
            ELSE <<>>
      e2 == IF Find(prefix, ",") = -1
            THEN <<CitationError(<<"Missing comma before the parenthetical", <<>>>>,
                                 0, Len(prefix), "comma")>>
            ELSE <<>>
      e3 == IF ~HasVolumeReporterPage(prefix)
            THEN <<CitationError(<<"Missing volume, reporter, or page", <<>>>>,
                                 0, Len(prefix), "volume_reporter_page")>>
            ELSE <<>>
      e4 == IF hasParens /\ sp = -1
            THEN <<CitationError(<<"Parenthetical must be of the form (Court Year)", <<>>>>,
                                 Find(citation, "("), RFind(citation, ")") + 1,
                                 "parenthetical_contents")>>
            ELSE <<>>
      e5 == IF hasParens /\ sp # -1 /\ ~(IsDigitStr(year_part) /\ Len(year_part) = 4)
            THEN <<CitationError(<<"Invalid year; expected four digits", year_part>>,
                                 RFind(citation, " ") + 1, RFind(citation, ")"), "year")>>
            ELSE <<>>
      e6 == IF hasParens /\ sp # -1 /\ Strip(court_part) = <<>>
            THEN <<CitationError(<<"Missing court name before the year", <<>>>>,
                                 Find(citation, "(") + 1, Find(citation, " "), "court")>>
            ELSE <<>>
      errors == e1 \o e2 \o e3 \o e4 \o e5 \o e6
  IN IF errors = <<>> /\ ~CITATION_PATTERN(citation).matched
     THEN <<CitationError(<<"Citation structure invalid", <<>>>>, 0, Len(citation), "overall")>>
     ELSE IF errors = <<>> THEN errors ELSE <<errors[1]>>

\* the validator without its seventh check
_collect_format_errors_no_fallback(citation) ==
  LET hasParens == Find(citation, "(") # -1 /\ Find(citation, ")") # -1
      prefix == PrefixBeforeParen(citation)
      inner == PySlice(citation, Find(citation, "(") + 1, RFind(citation, ")"))
      \* inner.rsplit(' ', 1)
      sp == RFind(inner, " ")
      court_part == PySlice(inner, 0, sp)
      year_part == PySlice(inner, sp + 1, Len(inner))
      e1 == IF ~hasParens
            THEN <<CitationError(<<"Missing parentheses around court and year", <<>>>>,
                                 0, Len(citation), "parentheses")>>
            ELSE <<>>
      e2 == IF Find(prefix, ",") = -1
            THEN <<CitationError(<<"Missing comma before the parenthetical", <<>>>>,
                                 0, Len(prefix), "comma")>>
            ELSE <<>>
      e3 == IF ~HasVolumeReporterPage(prefix)
            THEN <<CitationError(<<"Missing volume, reporter, or page", <<>>>>,
                                 0, Len(prefix), "volume_reporter_page")>>
            ELSE <<>>
      e4 == IF hasParens /\ sp = -1
            THEN <<CitationError(<<"Parenthetical must be of the form (Court Year)", <<>>>>,
                                 Find(citation, "("), RFind(citation, ")") + 1,
                                 "parenthetical_contents")>>
            ELSE <<>>
      e5 == IF hasParens /\ sp # -1 /\ ~(IsDigitStr(year_part) /\ Len(year_part) = 4)
            THEN <<CitationError(<<"Invalid year; expected four digits", year_part>>,
                                 RFind(citation, " ") + 1, RFind(citation, ")"), "year")>>
            ELSE <<>>
      e6 == IF hasParens /\ sp # -1 /\ Strip(court_part) = <<>>
            THEN <<CitationError(<<"Missing court name before the year", <<>>>>,
                                 Find(citation, "(") + 1, Find(citation, " "), "court")>>
            ELSE <<>>
      errors == e1 \o e2 \o e3 \o e4 \o e5 \o e6
  IN errors

_collect_format_errors(citation) ==
  LET hasParens == Find(citation, "(") # -1 /\ Find(citation, ")") # -1
      prefix == PrefixBeforeParen(citation)
      inner == PySlice(citation, Find(citation, "(") + 1, RFind(citation, ")"))
      \* inner.rsplit(' ', 1)
      sp == RFind(inner, " ")
      court_part == PySlice(inner, 0, sp)
      year_part == PySlice(inner, sp + 1, Len(inner))
      e1 == IF ~hasParens
            THEN <<CitationError(<<"Missing parentheses around court and year", <<>>>>,
                                 0, Len(citation), "parentheses")>>
            ELSE <<>>
      e2 == IF Find(prefix, ",") = -1
            THEN <<CitationError(<<"Missing comma before the parenthetical", <<>>>>,
                                 0, Len(prefix), "comma")>>
            ELSE <<>>
      e3 == IF ~HasVolumeReporterPage(prefix)
            THEN <<CitationError(<<"Missing volume, reporter, or page", <<>>>>,
                                 0, Len(prefix), "volume_reporter_page")>>
            ELSE <<>>
      e4 == IF hasParens /\ sp = -1
            THEN <<CitationError(<<"Parenthetical must be of the form (Court Year)", <<>>>>,
                                 Find(citation, "("), RFind(citation, ")") + 1,
                                 "parenthetical_contents")>>
            ELSE <<>>
      e5 == IF hasParens /\ sp # -1 /\ ~(IsDigitStr(year_part) /\ Len(year_part) = 4)
            THEN <<CitationError(<<"Invalid year; expected four digits", year_part>>,
                                 RFind(citation, " ") + 1, RFind(citation, ")"), "year")>>
            ELSE <<>>
      e6 == IF hasParens /\ sp # -1 /\ Strip(court_part) = <<>>
            THEN <<CitationError(<<"Missing court name before the year", <<>>>>,
                                 Find(citation, "(") + 1, Find(citation, " "), "court")>>
            ELSE <<>>
      errors == e1 \o e2 \o e3 \o e4 \o e5 \o e6
  IN IF errors = <<>> /\ ~CITATION_PATTERN(citation).matched
     THEN <<CitationError(<<"Citation structure invalid", <<>>>>, 0, Len(citation), "overall")>>
     ELSE errors

(***************************************************************************)
(* Semantic validator                                                      *)
(***************************************************************************)
map_federal_court_level(court_str) ==
  LET cs == Lower(court_str)
  IN IF court_str = <<>> THEN NoLevel
     ELSE IF Contains(cs, <<"s","u","p","r","e","m","e">>) THEN "Supreme Court"
     ELSE IF Contains(cs, <<"c","t","."," ","c","l",".">>) THEN "Court of Federal Claims"
     ELSE IF Contains(cs, <<"t",".","c",".">>) THEN "Tax Court"
     ELSE IF Contains(cs, <<"c","i","r">>) THEN "Court of Appeals"
     ELSE IF Contains(cs, <<"f",".","r",".","d",".">>) \/ Contains(cs, <<"d","i","s","t","r","i","c","t">>)
          THEN "District Courts"
     ELSE IF Contains(cs, <<"m",".","j",".">>) THEN "Military Service"
     ELSE IF Contains(cs, <<"v","e","t","."," ","a","p","p",".">>) THEN "Veterans' Appeals"
     ELSE "Unknown"

map_state_court_level(citation_components) ==
  LET rep == citation_components.reporter
      States == {st \in DOMAIN STATE_COURT_REPORTER_MAPPING :
                   rep \in STATE_COURT_REPORTER_MAPPING[st]}
  IN IF StartsWith(rep, <<"C","a","l","."," ","A","p","p",".">>) THEN "California Appellate"
     ELSE IF StartsWith(rep, <<"C","a","l","."," ","R","p","t","r",".">>) THEN "California"
     ELSE IF rep \in {<<"N",".","Y",".","2","d">>, <<"N",".","Y",".","3","d">>} THEN "New York Appellate"
     ELSE IF rep \in {<<"N",".","Y",".">>, <<"N",".","Y",".","S",".">>} THEN "New York"
     ELSE IF States # {} THEN CHOOSE st \in States : TRUE
     ELSE NoLevel

\* the check asking the state level first and the federal level only without one
validate_reporter_for_court_state_first(citation_components) ==
  LET court_str == citation_components.court
      reporter == citation_components.reporter
      fed_level == map_federal_court_level(court_str)
      st_level == map_state_court_level(citation_components)
  IN IF st_level # NoLevel
     THEN IF st_level \in DOMAIN STATE_COURT_REPORTER_MAPPING
          THEN STATE_COURT_REPORTER_MAPPING[st_level] = {}
               \/ reporter \in STATE_COURT_REPORTER_MAPPING[st_level]
          ELSE TRUE
     ELSE IF fed_level # NoLevel /\ fed_level # "Unknown"
     THEN IF fed_level \in DOMAIN COURT_REPORTER_MAPPING
          THEN COURT_REPORTER_MAPPING[fed_level] = {}
               \/ reporter \in COURT_REPORTER_MAPPING[fed_level]
          ELSE TRUE
     ELSE TRUE

\* TRUE when the call returns True, FALSE when it raises ValueError
validate_reporter_for_court(citation_components) ==
  LET court_str == citation_components.court
      reporter == citation_components.reporter
      fed_level == map_federal_court_level(court_str)
      st_level == map_state_court_level(citation_components)
  IN IF fed_level # NoLevel /\ fed_level # "Unknown"
     THEN IF fed_level \in DOMAIN COURT_REPORTER_MAPPING
          THEN COURT_REPORTER_MAPPING[fed_level] = {}
               \/ reporter \in COURT_REPORTER_MAPPING[fed_level]
          ELSE TRUE
     ELSE IF st_level # NoLevel
     THEN IF st_level \in DOMAIN STATE_COURT_REPORTER_MAPPING
          THEN STATE_COURT_REPORTER_MAPPING[st_level] = {}
               \/ reporter \in STATE_COURT_REPORTER_MAPPING[st_level]
          ELSE TRUE
     ELSE TRUE

(***************************************************************************)
(* Case repository                                                         *)
(***************************************************************************)
\* the synthetic db of fetch_case_data
CaseDb ==
  << [key |-> <<"2","9","1","_","U",".","S",".","_","1","9","3">>,
      rec |-> [text |-> <<"B","r","o","w","n"," ","v","."," ","B","o","a","r","d"," ","o","p","i","n","i","o","n"," ","t","e","x","t"," ","h","e","r","e",".",".",".">>,
               valid_pin_range |-> <<190, 210>>]],
     [key |-> <<"3","4","7","_","U",".","S",".","_","4","8","3">>,
      rec |-> [text |-> <<"B","r","o","w","n"," ","v","."," ","B","o","a","r","d"," ","d","e","c","i","s","i","o","n"," ","t","e","x","t",".",".",".">>,
               valid_pin_range |-> <<480, 500>>]] >>

\* db.get(key)
DbGet(key) ==
  LET Hit == {i \in 1..Len(CaseDb) : CaseDb[i].key = key}
  IN IF Hit = {} THEN NoneRec ELSE CaseDb[CHOOSE i \in Hit : TRUE].rec

\* does int(s) succeed (surrounding whitespace and a leading + are accepted)
IsIntLiteral(s) ==
  LET u == Strip(s)
      v == IF Len(u) > 0 /\ u[1] \in {"+", "-"} THEN PySlice(u, 1, Len(u)) ELSE u
  IN IsDigitStr(v)

\* int(s) when IsIntLiteral(s)
IntOf(s) ==
  LET u == Strip(s)
  IN IF u[1] = "-" THEN 0 - ToInt(PySlice(u, 1, Len(u)))
     ELSE IF u[1] = "+" THEN ToInt(PySlice(u, 1, Len(u)))
     ELSE ToInt(u)

\* pincite.split('-')
RECURSIVE SplitDash(_)
SplitDash(t) ==
  IF Find(t, "-") = -1 THEN <<t>>
  ELSE <<PySlice(t, 0, Find(t, "-"))>> \o SplitDash(PySlice(t, Find(t, "-") + 1, Len(t)))

\* [raised |-> TRUE] for ValueError, else [raised |-> FALSE, rec |-> record or NoneRec]
fetch_case_data(vol, rep, page, pincite) ==
  LET key == vol \o <<"_">> \o rep \o <<"_">> \o page
      rec == DbGet(key)
      parts == SplitDash(pincite)
      low == rec.valid_pin_range[1]
      high == rec.valid_pin_range[2]
      InRange(x) == low <= x /\ x <= high
      ok == IF Find(pincite, "-") # -1
            THEN /\ Len(parts) = 2
                 /\ IsIntLiteral(parts[1])
                 /\ IsIntLiteral(parts[2])
                 /\ InRange(IntOf(parts[1]))
                 /\ InRange(IntOf(parts[2]))
            ELSE IsIntLiteral(pincite) /\ InRange(IntOf(pincite))
  IN IF rec # NoneRec /\ pincite # None /\ pincite # <<>>
     THEN IF ok THEN [raised |-> FALSE, rec |-> rec] ELSE [raised |-> TRUE]
     ELSE [raised |-> FALSE, rec |-> rec]

(***************************************************************************)
(* Quote verification                                                      *)
(***************************************************************************)
\* re.sub(r'\*(sig)\*', '', txt, flags=re.IGNORECASE) over the signal list
SignalAt(t, i) ==
  LET S == {k \in 1..Len(VALID_CITATION_SIGNALS) :
              MatchAt(Lower(t), i, Lower(VALID_CITATION_SIGNALS[k]))}
  IN IF S = {} THEN 0 ELSE Max({Len(VALID_CITATION_SIGNALS[k]) : k \in S})

RECURSIVE DropSignals(_, _)
DropSignals(t, i) ==
  LET S == {j \in i..Len(t) : SignalAt(t, j) # 0}
  IN IF S = {} THEN PySlice(t, i - 1, Len(t))
     ELSE PySlice(t, i - 1, Min(S) - 1) \o DropSignals(t, Min(S) + SignalAt(t, Min(S)))

_remove_signals(txt) == Strip(DropSignals(txt, 1))

\* length of the common run of a from i and b from j (0-based), inside [.., ahi) x [.., bhi)
RECURSIVE RunLen(_, _, _, _, _, _)
RunLen(a, b, i, j, ahi, bhi) ==
  IF i < ahi /\ j < bhi /\ a[i + 1] = b[j + 1]
  THEN 1 + RunLen(a, b, i + 1, j + 1, ahi, bhi)
  ELSE 0

\* SequenceMatcher.find_longest_match without junk: <<i, j, size>>, the longest
\* block, earliest in a, then earliest in b
\* among the blocks <<i, j, size>>: the longest, earliest in a, then earliest in b
LongestBlock(alo, blo, Blocks) ==
  IF Blocks = {} THEN <<alo, blo, 0>>
  ELSE CHOOSE x \in Blocks :
         \A y \in Blocks : \/ x[3] > y[3]
                            \/ (x[3] = y[3] /\ x[1] < y[1])
                            \/ (x[3] = y[3] /\ x[1] = y[1] /\ x[2] <= y[2])

find_longest_match(a, b, alo, ahi, blo, bhi) ==
  LongestBlock(alo, blo,
               {<<c[1], c[2], RunLen(a, b, c[1], c[2], ahi, bhi)>> :
                  c \in {d \in (alo..(ahi - 1)) \X (blo..(bhi - 1)) : a[d[1] + 1] = b[d[2] + 1]}})

\* total size of the matching blocks (get_matching_blocks)
RECURSIVE MatchedSize(_, _, _, _, _, _)

\* the block m and the matching blocks to its left and to its right
AroundBlock(a, b, alo, ahi, blo, bhi, m) ==
  IF m[3] = 0 THEN 0
  ELSE m[3] + MatchedSize(a, b, alo, m[1], blo, m[2])
            + MatchedSize(a, b, m[1] + m[3], ahi, m[2] + m[3], bhi)

MatchedSize(a, b, alo, ahi, blo, bhi) ==
  IF alo >= ahi \/ blo >= bhi THEN 0
  ELSE AroundBlock(a, b, alo, ahi, blo, bhi, find_longest_match(a, b, alo, ahi, blo, bhi))

\* sm.ratio() > thresh, with thresh 0.3 under 50 characters and 0.6 otherwise;
\* ratio = 2*M/T, and 1.0 when both are empty
_check_quote(prov, orig) ==
  LET M == MatchedSize(prov, orig, 0, Len(prov), 0, Len(orig))
      T == Len(prov) + Len(orig)
  IN IF T = 0 THEN TRUE
     ELSE IF Len(prov) < 50 THEN 20 * M > 3 * T
     ELSE 10 * M > 3 * T

(***************************************************************************)
(* Renderer                                                                *)
(***************************************************************************)
OpenTag(style) == IF style = "italic" THEN <<"<","i",">">> ELSE <<"_","_">>

CloseTag(style) == IF style = "italic" THEN <<"<","/","i",">">> ELSE <<"_","_">>

\* str.replace(old, new): every non-overlapping occurrence, left to right; an
\* empty `old` matches before every character and at the end
RECURSIVE StrReplaceFrom(_, _, _, _)
StrReplaceFrom(t, i, old, new) ==
  LET M == {j \in i..Len(t) : MatchAt(t, j, old)}
  IN IF M = {} THEN PySlice(t, i - 1, Len(t))
     ELSE PySlice(t, i - 1, Min(M) - 1) \o new \o StrReplaceFrom(t, Min(M) + Len(old), old, new)

\* new + c1 + new + c2 + ... + cn + new
Interleave(t, new) ==
  LET b == Len(new) + 1
  IN [k \in 1..(Len(t) * b + Len(new)) |->
        IF (k - 1) % b < Len(new) THEN new[((k - 1) % b) + 1] ELSE t[((k - 1) \div b) + 1]]

StrReplace(t, old, new) ==
  IF old = <<>> THEN Interleave(t, new) ELSE StrReplaceFrom(t, 1, old, new)

\* rf"\b{x}\b" at i: x is used as a pattern, so its "." matches any character
CrossRefAt(t, i, x) ==
  /\ i + Len(x) - 1 <= Len(t)
  /\ \A k \in 1..Len(x) : x[k] = "." \/ t[i + k - 1] = x[k]
  /\ WordBoundary(t, i)
  /\ WordBoundary(t, i + Len(x))

RECURSIVE SubCrossRef(_, _, _, _)
SubCrossRef(t, i, x, style) ==
  LET M == {j \in i..Len(t) : CrossRefAt(t, j, x)}
  IN IF M = {} THEN PySlice(t, i - 1, Len(t))
     ELSE PySlice(t, i - 1, Min(M) - 1) \o OpenTag(style) \o x \o CloseTag(style)
          \o SubCrossRef(t, Min(M) + Len(x), x, style)

\* rf"(?i)\b{re.escape(phrase)}\b" at i
PhraseAt(t, i, phrase) ==
  /\ MatchAt(Lower(t), i, Lower(phrase))
  /\ WordBoundary(t, i)
  /\ WordBoundary(t, i + Len(phrase))

RECURSIVE SubPhrase(_, _, _, _)
SubPhrase(t, i, phrase, style) ==
  LET M == {j \in i..Len(t) : PhraseAt(t, j, phrase)}
  IN IF M = {} THEN PySlice(t, i - 1, Len(t))
     ELSE LET j == Min(M)
          IN PySlice(t, i - 1, j - 1)
             \o OpenTag(style) \o PySlice(t, j - 1, j - 1 + Len(phrase)) \o CloseTag(style)
             \o SubPhrase(t, j + Len(phrase), phrase, style)

\* rf"(^|[.;]\s+)({re.escape(sig)})\s" at i, ignoring case: length of the
\* prefix group plus one when it matches, 0 otherwise
SignalOpenerAt(t, i, sig) ==
  LET sp == SkipWhile(t, i + 1, Space)
      SigThenSpace(j) == /\ MatchAt(Lower(t), j, Lower(sig))
                         /\ j + Len(sig) <= Len(t)
                         /\ t[j + Len(sig)] \in Space
  IN IF i = 1 /\ SigThenSpace(1) THEN 1
     ELSE IF t[i] \in {".", ";"} /\ sp > i + 1 /\ SigThenSpace(sp) THEN sp - i + 1
     ELSE 0

RECURSIVE SubSignal(_, _, _, _)
SubSignal(t, i, sig, style) ==
  LET M == {j \in i..Len(t) : SignalOpenerAt(t, j, sig) # 0}
  IN IF M = {} THEN PySlice(t, i - 1, Len(t))
     ELSE LET j == Min(M)
              k == SignalOpenerAt(t, j, sig)
          IN PySlice(t, i - 1, j + k - 2)
             \o OpenTag(style) \o PySlice(t, j + k - 2, j + k - 2 + Len(sig)) \o CloseTag(style)
             \o <<" ">>
             \o SubSignal(t, j + k + Len(sig), sig, style)

RECURSIVE ApplySignals(_, _, _)
ApplySignals(t, k, style) ==
  IF k > Len(CITATION_SIGNALS_ORDERED) THEN t
  ELSE ApplySignals(SubSignal(t, 1, CITATION_SIGNALS_ORDERED[k], style), k + 1, style)

_apply_signal_formatting(text, style) == ApplySignals(text, 1, style)

format_citation(comps, style) ==
  LET raw == comps.case_name \o <<" ">> \o comps.volume \o <<" ">> \o comps.reporter
             \o <<" ">> \o comps.page
             \o (IF comps.pinpoint # None /\ comps.pinpoint # <<>>
                 THEN <<",", " ">> \o comps.pinpoint ELSE <<>>)
             \o <<" ", "(">> \o comps.court \o <<" ">> \o comps.year \o <<")">>
      wrapped == StrReplace(raw, comps.case_name,
                            OpenTag(style) \o comps.case_name \o CloseTag(style))
      x1 == SubCrossRef(wrapped, 1, <<"i","d",".">>, style)
      x2 == SubCrossRef(x1, 1, <<"s","u","p","r","a">>, style)
      x3 == SubCrossRef(x2, 1, <<"i","n","f","r","a">>, style)
      \* the first phrase of the list holds a typographic apostrophe, a character
      \* outside the modelled alphabet: it never occurs in a modelled text
      y1 == SubPhrase(x3, 1, <<"o","v","e","r","r","u","l","e","d"," ","b","y">>, style)
      y2 == SubPhrase(y1, 1, <<"a","s"," ","q","u","o","t","e","d"," ","i","n">>, style)
  IN _apply_signal_formatting(y2, style)

(***************************************************************************)
(* The full-citation pipeline                                              *)
(***************************************************************************)
\* validate_full_citation from the reporter checks on: comps is m.groupdict(),
\* fetched the outcome of fetch_case_data for it
ValidateComponents(comps, fetched, provided_quote, pincite) ==
  LET data == IF pincite # None THEN fetched.rec ELSE EmptyDict
      text == IF "text" \in DOMAIN data THEN data.text ELSE <<>>
      comps2 == [comps EXCEPT !.case_name = RStripSet(comps.case_name, {","})]
  IN IF comps.reporter \notin ALLOWED_REPORTERS
     THEN [status |-> "ValueError", message |-> "Reporter not allowed"]
     ELSE IF ~validate_reporter_for_court(comps)
     THEN [status |-> "ValueError", message |-> "Reporter not valid for court"]
     ELSE IF pincite # None /\ fetched.raised
     THEN [status |-> "ValueError", message |-> "Pincite outside range"]
     ELSE IF pincite # None /\ fetched.rec = NoneRec
     THEN [status |-> "ValueError", message |-> "Citation not found or pincite incorrect"]
     ELSE IF /\ provided_quote # None
             /\ provided_quote # <<>>
             /\ ~_check_quote(_remove_signals(provided_quote), text)
     THEN [status |-> "ValueError", message |-> "Provided quote does not match source text"]
     ELSE [status |-> "ok", comps |-> comps2, data |-> data,
           formatted |-> format_citation(comps2, "italic")]

\* validate_full_citation from the structural check on: errors is what
\* _collect_format_errors found in the normalised text, m the match of
\* CITATION_PATTERN on it
ValidateParsed(citation, errors, m, provided_quote, pincite) ==
  IF errors # <<>>
  THEN [status |-> "CitationValidationException", errors |-> errors]
  ELSE IF ~m.matched
  THEN [status |-> "CitationValidationException",
        errors |-> <<CitationError(<<"Unable to parse citation", citation>>,
                                   0, Len(citation), "parse")>>]
  ELSE ValidateComponents(GroupDict(m), fetch_case_data(m.volume, m.reporter, m.page, pincite),
                          provided_quote, pincite)

\* validate_full_citation on the normalised text
ValidateNormalised(citation, provided_quote, pincite) ==
  ValidateParsed(citation, _collect_format_errors(citation), CITATION_PATTERN(citation),
                 provided_quote, pincite)

\* The outcome of validate_full_citation:
\*   [status |-> "ok", comps, data, formatted]
\*   [status |-> "CitationValidationException", errors]
\*   [status |-> "ValueError", message]
validate_full_citation(citation0, provided_quote, pincite) ==
  ValidateNormalised(abbreviate_journals_in_citation(abbreviate_months_in_citation(citation0)),
                     provided_quote, pincite)

(***************************************************************************)
(* Repair heuristic                                                        *)
(***************************************************************************)
\* The extraction pattern of fix_citation_format on the stripped text:
\*   ^(?P<case>.+?)\s+(?P<vol>\d+)\s+(?P<rep>[A-Za-z\.\']+)\s+(?P<page>\d+)\s*
\*    (?P<court>.+?)?\s*(?P<year>\d{4})\.?$
\* The year is the four digits at the end (before an optional final period);
\* the case name is the shortest prefix followed by volume, reporter and a page
\* digit that starts before the year; the page is the longest digit run that
\* stops before the year; the court is what lies between page and year.
\* the groups of the extraction pattern once the case name ends after L characters
FixGroups(orig, L) ==
  LET n == Len(orig)
      yEnd == IF n >= 1 /\ orig[n] = "." THEN n - 1 ELSE n
      Y == yEnd - 3
      v1 == SkipWhile(orig, L + 1, Space)
      v2 == SkipWhile(orig, v1, Digits)
      r1 == SkipWhile(orig, v2, Space)
      r2 == SkipWhile(orig, r1, RepCls)
      p1 == SkipWhile(orig, r2, Space)
      pRun == SkipWhile(orig, p1, Digits)
      pEnd == IF pRun > Y THEN Y ELSE pRun
  IN [matched |-> TRUE,
      case |-> PySlice(orig, 0, L),
      vol |-> PySlice(orig, v1 - 1, v2 - 1),
      rep |-> PySlice(orig, r1 - 1, r2 - 1),
      page |-> PySlice(orig, p1 - 1, pEnd - 1),
      court |-> Strip(PySlice(orig, pEnd - 1, Y - 1)),
      year |-> PySlice(orig, Y - 1, yEnd)]

FixMatch(orig) ==
  LET n == Len(orig)
      yEnd == IF n >= 1 /\ orig[n] = "." THEN n - 1 ELSE n
      Y == yEnd - 3
      tailOK == Y >= 1 /\ IsDigitStr(PySlice(orig, Y - 1, yEnd))
      V1(L) == SkipWhile(orig, L + 1, Space)
      V2(L) == SkipWhile(orig, V1(L), Digits)
      R1(L) == SkipWhile(orig, V2(L), Space)
      R2(L) == SkipWhile(orig, R1(L), RepCls)
      P1(L) == SkipWhile(orig, R2(L), Space)
      Cand == {L \in 1..n : /\ V1(L) > L + 1
                            /\ V2(L) > V1(L)
                            /\ R1(L) > V2(L)
                            /\ R2(L) > R1(L)
                            /\ P1(L) > R2(L)
                            /\ P1(L) < Y
                            /\ orig[P1(L)] \in Digits}
  IN IF ~tailOK \/ Cand = {} THEN NoMatch
     ELSE FixGroups(orig, Min(Cand))

\* the rebuilt citation for a match m of the extraction pattern on orig
FixRebuild(orig, m) ==
  IF m.matched
  THEN Strip(m.case) \o <<",", " ">> \o m.vol \o <<" ">> \o m.rep \o <<" ">> \o m.page
       \o <<" ", "(">> \o Strip(m.court \o <<" ">> \o m.year) \o <<")">>
  ELSE orig

fix_citation_format(citation) == FixRebuild(Strip(citation), FixMatch(Strip(citation)))

(***************************************************************************)
(* Short-citation resolver                                                 *)
(***************************************************************************)
\* characters in code-point order, for the comparison of strings
AsciiOrder ==
  <<" ", "'", "(", ")", "*", "+", ",", "-", ".", "/">> \o
  <<"0","1","2","3","4","5","6","7","8","9">> \o <<";", "<", ">">> \o
  UpperSeq \o <<"_">> \o LowerSeq

Ord(c) == CHOOSE i \in 1..Len(AsciiOrder) : AsciiOrder[i] = c

\* a < b for strings
StrLess(a, b) ==
  LET m == IF Len(a) < Len(b) THEN Len(a) ELSE Len(b)
      D == {i \in 1..m : a[i] # b[i]}
  IN IF D = {} THEN Len(a) < Len(b) ELSE Ord(a[Min(D)]) < Ord(b[Min(D)])

\* a < b for tuples of strings of equal length
RECURSIVE TupleLess(_, _)
TupleLess(a, b) ==
  IF a = <<>> THEN FALSE
  ELSE IF a[1] # b[1] THEN StrLess(a[1], b[1])
  ELSE TupleLess(Tail(a), Tail(b))

\* sorted(list of tuples)
RECURSIVE Sorted(_)
Sorted(l) ==
  IF l = <<>> THEN <<>>
  ELSE LET i == CHOOSE i \in 1..Len(l) : \A j \in 1..Len(l) : ~TupleLess(l[j], l[i])
       IN <<l[i]>> \o Sorted([k \in 1..(Len(l) - 1) |-> IF k < i THEN l[k] ELSE l[k + 1]])

\* dict.get(f) for a text-valued field
Get(d, f) == IF f \in DOMAIN d THEN d[f] ELSE None

\* truthiness of an optional text
Truthy(x) == x # None /\ x # <<>>

\* a or b
Or(a, b) == IF Truthy(a) THEN a ELSE b

\* full_comps.get('parallel', [])
Parallel(d) == IF "parallel" \in DOMAIN d THEN d.parallel ELSE <<>>

ShortKey(kind, volume, reporter, pin, parallels) ==
  [kind |-> kind, volume |-> volume, reporter |-> reporter, pin |-> pin,
   parallels |-> parallels]

\* the key format_short_citation builds for a request
KeyOf(full_comps, kind) ==
  ShortKey(kind,
           Get(full_comps, "volume"),
           Or(Or(Get(full_comps, "reporter"), Get(full_comps, "code")),
              Get(full_comps, "title")),
           Or(Or(Get(full_comps, "pinpoint"), Get(full_comps, "page")),
              Get(full_comps, "section")),
           Sorted([i \in 1..Len(Parallel(full_comps)) |->
                     <<Parallel(full_comps)[i].volume, Parallel(full_comps)[i].reporter,
                       Parallel(full_comps)[i].page>>]))

S_IdAt == <<"I","d","."," ","a","t"," ">>

S_Id == <<"I","d",".">>

S_At == <<" ","a","t"," ">>

S_Supra == <<","," ","s","u","p","r","a">>

\* "§ " is written with the section sign as one character
S_Sect == <<"§", " ">>

S_CFR == <<" ","C",".","F",".","R","."," ">>

\* ', '.join(f"{p['volume']} {p['reporter']} at {p['page']}" for p in parallels)
RECURSIVE JoinParallels(_)
JoinParallels(ps) ==
  IF ps = <<>> THEN <<>>
  ELSE ps[1].volume \o <<" ">> \o ps[1].reporter \o S_At \o ps[1].page
       \o (IF Len(ps) > 1 THEN <<",", " ">> \o JoinParallels(Tail(ps)) ELSE <<>>)

\* the explicit short form of a request, before the trailing period:
\* [status |-> "ok", short] or [status |-> the exception raised]
ExplicitShort(full_comps, kind) ==
  LET Has(f) == f \in DOMAIN full_comps
      author == Get(full_comps, "author")
      code == IF Has("code") THEN Strip(full_comps.code) ELSE <<>>
  IN IF kind = "case"
     THEN IF ~Has("case_name") THEN [status |-> "KeyError"]
          ELSE IF SplitWords(full_comps.case_name) = <<>> THEN [status |-> "IndexError"]
          ELSE IF ~(Has("volume") /\ Has("reporter") /\ Has("page")) THEN [status |-> "KeyError"]
          ELSE [status |-> "ok",
                short |-> SplitWords(full_comps.case_name)[1] \o <<",", " ">>
                          \o full_comps.volume \o <<" ">> \o full_comps.reporter
                          \o S_At \o full_comps.page
                          \o (IF Parallel(full_comps) # <<>>
                              THEN <<",", " ">> \o JoinParallels(Parallel(full_comps))
                              ELSE <<>>)]
     ELSE IF kind = "statute"
     THEN IF ~Has("section") THEN [status |-> "KeyError"]
          ELSE [status |-> "ok",
                short |-> IF code # <<>>
                          THEN code \o <<" ">> \o S_Sect \o full_comps.section
                          ELSE S_Sect \o full_comps.section]
     ELSE IF kind = "reg"
     THEN IF ~Has("section") THEN [status |-> "KeyError"]
          ELSE [status |-> "ok",
                short |-> IF Truthy(Get(full_comps, "title"))
                          THEN full_comps.title \o S_CFR \o S_Sect \o full_comps.section
                          ELSE S_Sect \o full_comps.section]
     ELSE IF kind = "book"
     THEN [status |-> "ok",
           short |-> IF Truthy(author)
                     THEN author \o S_Supra
                          \o (IF Truthy(Get(full_comps, "pinpoint"))
                              THEN S_At \o full_comps.pinpoint ELSE <<>>)
                     ELSE S_Id]
     ELSE IF kind = "article"
     THEN [status |-> "ok",
           short |-> IF Truthy(author)
                     THEN author \o S_Supra
                          \o (IF Truthy(Or(Get(full_comps, "pinpoint"), Get(full_comps, "page")))
                              THEN S_At \o Or(Get(full_comps, "pinpoint"), Get(full_comps, "page"))
                              ELSE <<>>)
                     ELSE S_Id]
     ELSE [status |-> "ValueError"]

\* format_short_citation answering "Id." on the same work whether or not a pin exists
format_short_citation_id_without_pin(last, full_comps, kind) ==
  LET key == KeyOf(full_comps, kind)
      e == ExplicitShort(full_comps, kind)
  IN IF last = key
     THEN [status |-> "ok", value |-> S_Id, last_short_key |-> last]
     ELSE IF e.status # "ok"
     THEN [status |-> e.status,
           value |-> IF e.status = "ValueError" THEN "Unsupported short form kind"
                     ELSE "missing field",
           last_short_key |-> last]
     ELSE [status |-> "ok",
           value |-> IF EndsWith(e.short, <<".">>) THEN e.short ELSE e.short \o <<".">>,
           last_short_key |-> key]

\* format_short_citation keeping the current work when a request of another kind
\* comes in between
format_short_citation_kept_across_kinds(last, full_comps, kind) ==
  LET key == KeyOf(full_comps, kind)
      e == ExplicitShort(full_comps, kind)
  IN IF last = key
     THEN [status |-> "ok",
           value |-> IF Truthy(key.pin) THEN S_IdAt \o key.pin \o <<".">> ELSE S_Id,
           last_short_key |-> last]
     ELSE IF e.status # "ok"
     THEN [status |-> e.status,
           value |-> IF e.status = "ValueError" THEN "Unsupported short form kind"
                     ELSE "missing field",
           last_short_key |-> last]
     ELSE [status |-> "ok",
           value |-> IF EndsWith(e.short, <<".">>) THEN e.short ELSE e.short \o <<".">>,
           last_short_key |-> IF last # NoneRec /\ last.kind # kind THEN last ELSE key]

\* format_short_citation comparing the keys without their kind
format_short_citation_kind_blind(last, full_comps, kind) ==
  LET key == KeyOf(full_comps, kind)
      e == ExplicitShort(full_comps, kind)
  IN IF last # NoneRec /\ [last EXCEPT !.kind = kind] = key
     THEN [status |-> "ok",
           value |-> IF Truthy(key.pin) THEN S_IdAt \o key.pin \o <<".">> ELSE S_Id,
           last_short_key |-> last]
     ELSE IF e.status # "ok"
     THEN [status |-> e.status,
           value |-> IF e.status = "ValueError" THEN "Unsupported short form kind"
                     ELSE "missing field",
           last_short_key |-> last]
     ELSE [status |-> "ok",
           value |-> IF EndsWith(e.short, <<".">>) THEN e.short ELSE e.short \o <<".">>,
           last_short_key |-> key]

\* format_short_citation on a checker whose last_short_key is `last`:
\* the outcome of the call and the last_short_key it leaves
format_short_citation(last, full_comps, kind) ==
  LET key == KeyOf(full_comps, kind)
      e == ExplicitShort(full_comps, kind)
  IN IF last = key
     THEN [status |-> "ok",
           value |-> IF Truthy(key.pin) THEN S_IdAt \o key.pin \o <<".">> ELSE S_Id,
           last_short_key |-> last]
     ELSE IF e.status # "ok"
     THEN [status |-> e.status,
           value |-> IF e.status = "ValueError" THEN "Unsupported short form kind"
                     ELSE "missing field",
           last_short_key |-> last]
     ELSE [status |-> "ok",
           value |-> IF EndsWith(e.short, <<".">>) THEN e.short ELSE e.short \o <<".">>,
           last_short_key |-> key]

(***************************************************************************)
(* Dispatch, document index, short-form lookup, quote formatting           *)
(***************************************************************************)
\* FEDERAL_REGULATION_PATTERN.match:
\* ^(?P<title>\d+)\s+C\.F\.R\.\s+§\s*(?P<section>[\d\.\-]+)$
FEDERAL_REGULATION_PATTERN(t) ==
  LET d == SkipWhile(t, 1, Digits)
      c == SkipWhile(t, d, Space)
      a == c + Len(<<"C",".","F",".","R",".">>)
      g == SkipWhile(t, a, Space)
      h == SkipWhile(t, g + 1, Space)
  IN /\ d > 1
     /\ c > d
     /\ MatchAt(t, c, <<"C",".","F",".","R",".">>)
     /\ g > a
     /\ g <= Len(t)
     /\ t[g] = "§"
     /\ h <= Len(t)
     /\ AllIn(PySlice(t, h - 1, Len(t)), Digits \cup {".", "-"})

\* the kinds of VALIDATORS that are modelled
ValidatorKinds == {"case", "federal_regulation"}

\* validate(kind, citation): TRUE is returned, or ValueError is raised
validate(kind, citation) ==
  IF kind \notin ValidatorKinds
  THEN [status |-> "ValueError", value |-> "No validator found"]
  ELSE IF \/ kind = "case" /\ CITATION_PATTERN(citation).matched
          \/ kind = "federal_regulation" /\ FEDERAL_REGULATION_PATTERN(citation)
  THEN [status |-> "ok", value |-> "True"]
  ELSE [status |-> "ValueError", value |-> "Invalid citation format"]

\* re.split(r';\s*', text)
RECURSIVE SplitSegments(_)
SplitSegments(t) ==
  IF Find(t, ";") = -1 THEN <<t>>
  ELSE <<PySlice(t, 0, Find(t, ";"))>>
       \o SplitSegments(PySlice(t, SkipWhile(t, Find(t, ";") + 2, Space) - 1, Len(t)))

\* f"{comps['volume']}_{comps['reporter']}_{comps['page']}"
CompositeKey(comps) == comps.volume \o <<"_">> \o comps.reporter \o <<"_">> \o comps.page

\* d[key] = comps on an insertion-ordered dict held as a sequence of entries
DictPut(d, key, comps) ==
  IF \E i \in 1..Len(d) : d[i].key = key
  THEN [i \in 1..Len(d) |-> IF d[i].key = key THEN [key |-> key, comps |-> comps] ELSE d[i]]
  ELSE Append(d, [key |-> key, comps |-> comps])

\* the loop of process_document over the segments, from the cleared dict;
\* the anchored pattern yields at most one match per segment
RECURSIVE IndexSegments(_, _)
IndexSegments(segs, d) ==
  IF segs = <<>> THEN d
  ELSE LET m == CITATION_PATTERN(segs[1])
       IN IndexSegments(Tail(segs),
                        IF m.matched THEN DictPut(d, CompositeKey(m), GroupDict(m)) ELSE d)

process_document(text) == IndexSegments(SplitSegments(text), <<>>)

\* the scan keeping the last matching record instead of returning at the first
resolve_short_citation_last_match(full, short) ==
  LET Hit == {i \in 1..Len(full) : /\ Contains(short, full[i].comps.volume)
                                   /\ Contains(short, full[i].comps.reporter)}
  IN IF Hit = {} THEN [status |-> "KeyError", value |-> "No matching full citation"]
     ELSE [status |-> "ok", value |-> full[Max(Hit)].comps]

\* resolve_short_citation on a stored mapping: the record or KeyError
resolve_short_citation(full, short) ==
  LET Hit == {i \in 1..Len(full) : /\ Contains(short, full[i].comps.volume)
                                   /\ Contains(short, full[i].comps.reporter)}
  IN IF Hit = {} THEN [status |-> "KeyError", value |-> "No matching full citation"]
     ELSE [status |-> "ok", value |-> full[Min(Hit)].comps]

\* the typographic double quotes U+201C and U+201D, each one character of a text
LDQUO == "LDQUO"

RDQUO == "RDQUO"

ToUpperChar(c) ==
  IF c \in LowerSet THEN UpperSeq[CHOOSE i \in 1..Len(LowerSeq) : LowerSeq[i] = c] ELSE c

\* re.sub(r'\.{3,}', ' . . . ', quote)
RECURSIVE SubEllipsis(_, _)
SubEllipsis(t, i) ==
  LET M == {j \in i..Len(t) : SkipWhile(t, j, {"."}) - j >= 3}
  IN IF M = {} THEN PySlice(t, i - 1, Len(t))
     ELSE PySlice(t, i - 1, Min(M) - 1) \o <<" ","."," ","."," ","."," ">>
          \o SubEllipsis(t, SkipWhile(t, Min(M), {"."}))

\* len(quote.split())
WordCount(t) ==
  Cardinality({i \in 1..Len(t) : t[i] \notin Space /\ (i = 1 \/ t[i - 1] \in Space)})

\* "\n".join(" " + line for line in quote.splitlines())
RECURSIVE IndentLines(_)
IndentLines(t) ==
  IF t = <<>> THEN <<>>
  ELSE IF Find(t, "\n") = -1 THEN <<" ">> \o t
  ELSE <<" ">> \o PySlice(t, 0, Find(t, "\n"))
       \o (IF Find(t, "\n") + 1 < Len(t)
           THEN <<"\n">> \o IndentLines(PySlice(t, Find(t, "\n") + 1, Len(t)))
           ELSE <<>>)

\* words below which a quote is rendered inline
InlineQuoteWords == 50

format_quote(quote0, citation_str) ==
  LET words == WordCount(quote0)
      q1 == [i \in 1..Len(quote0) |-> IF quote0[i] \in {LDQUO, RDQUO, "\""} THEN "'" ELSE quote0[i]]
      q2 == SubEllipsis(q1, 1)
      q3 == IF q2 # <<>> /\ q2[1] \in LowerSet
            THEN <<"[", ToUpperChar(q2[1]), "]">> \o Tail(q2)
            ELSE q2
  IN IF words < InlineQuoteWords
     THEN <<LDQUO>> \o q3 \o <<RDQUO, " ">> \o citation_str
     ELSE IndentLines(q2) \o <<"\n">> \o citation_str

(***************************************************************************)
(* Inputs                                                                  *)
(***************************************************************************)
\* "Alpha v. Beta, 10 U.S. 100 (U.S. 1800)"
T_Alpha ==
  <<"A","l","p","h","a"," ","v","."," ","B","e","t","a",","," ","1","0"," ","U",".","S","."," ","1","0","0"," ","(","U",".","S","."," ","1","8","0","0",")">>

\* "Gamma v. Delta, 11 U.S. 200 (U.S. 1801)"
T_Gamma ==
  <<"G","a","m","m","a"," ","v","."," ","D","e","l","t","a",","," ","1","1"," ","U",".","S","."," ","2","0","0"," ","(","U",".","S","."," ","1","8","0","1",")">>

\* " , 10 U.S. 100 (U.S. 1800)"
T_Blank ==
  <<" ",","," ","1","0"," ","U",".","S","."," ","1","0","0"," ","(","U",".","S","."," ","1","8","0","0",")">>

\* "A v. B, 1 U.S. 2, 3 (U.S. 1954)"
T_Pin ==
  <<"A"," ","v","."," ","B",","," ","1"," ","U",".","S","."," ","2",","," ","3"," ","(","U",".","S","."," ","1","9","5","4",")">>

\* "Brown v. Board, 347 U.S. 483 (U.S. 1954)"
T_Brown ==
  <<"B","r","o","w","n"," ","v","."," ","B","o","a","r","d",","," ","3","4","7"," ","U",".","S","."," ","4","8","3"," ","(","U",".","S","."," ","1","9","5","4",")">>

\* "Brown v. Board 347 U.S. 483 U.S. 1954"
T_BrownBad ==
  <<"B","r","o","w","n"," ","v","."," ","B","o","a","r","d"," ","3","4","7"," ","U",".","S","."," ","4","8","3"," ","U",".","S","."," ","1","9","5","4">>

\* "Brown v. Board, 347 U.S. 483 (U.S. 1954) "
T_BrownSp ==
  <<"B","r","o","w","n"," ","v","."," ","B","o","a","r","d",","," ","3","4","7"," ","U",".","S","."," ","4","8","3"," ","(","U",".","S","."," ","1","9","5","4",")"," ">>

\* "Foo v Bar 123 Xyz 456 WrongCourt 2025"
T_Foo ==
  <<"F","o","o"," ","v"," ","B","a","r"," ","1","2","3"," ","X","y","z"," ","4","5","6"," ","W","r","o","n","g","C","o","u","r","t"," ","2","0","2","5">>

\* "completely bogus text"
T_Bogus ==
  <<"c","o","m","p","l","e","t","e","l","y"," ","b","o","g","u","s"," ","t","e","x","t">>

\* "A v. B, 1 F. 2 (Supreme Court 1954)"
T_Sup ==
  <<"A"," ","v","."," ","B",","," ","1"," ","F","."," ","2"," ","(","S","u","p","r","e","m","e"," ","C","o","u","r","t"," ","1","9","5","4",")">>

\* "A v. B 1 F. 2 Supreme Court 1954"
T_SupBad ==
  <<"A"," ","v","."," ","B"," ","1"," ","F","."," ","2"," ","S","u","p","r","e","m","e"," ","C","o","u","r","t"," ","1","9","5","4">>

\* "A v. B, 1 U.S. 2 (U.S. March 1954)"
T_March ==
  <<"A"," ","v","."," ","B",","," ","1"," ","U",".","S","."," ","2"," ","(","U",".","S","."," ","M","a","r","c","h"," ","1","9","5","4",")">>

\* "Other, 10 U.S. 100 (N.Y. 1900)"
T_Other ==
  <<"O","t","h","e","r",","," ","1","0"," ","U",".","S","."," ","1","0","0"," ","(","N",".","Y","."," ","1","9","0","0",")">>

\* quotes offered for verification
Q_Brown == <<"B","r","o","w","n"," ","v","."," ","B","o","a","r","d">>

Q_Zzz == <<"z","z","z">>

\* pincites
P_In == <<"4","8","5">>

P_Out == <<"6","0","0">>

P_Range == <<"4","8","5","-","4","9","0">>

\* documents for process_document
D_Two == T_Alpha \o <<";", " ">> \o T_Gamma

D_Dup == T_Alpha \o <<";">> \o T_Other \o <<";", " ">> \o T_Bogus

D_None == T_Bogus

\* short texts for resolve_short_citation
SH_Alpha == <<"A","l","p","h","a",","," ","1","0"," ","U",".","S","."," ","a","t"," ","1","0","0",".">>

SH_Gamma == <<"1","1"," ","U",".","S","."," ","a","t"," ","2","0","0">>

SH_Id == S_Id

\* "10 U.S. at 110": holds the volume of Alpha and that of Gamma
SH_Both == <<"1","0"," ","U",".","S","."," ","a","t"," ","1","1","0">>

\* the record a successful validate_full_citation returns for a text
CompsOf(t) == validate_full_citation(t, None, None).comps

Par_A == [volume |-> <<"5">>, reporter |-> R_F, page |-> <<"6">>]

Par_B == [volume |-> <<"3">>, reporter |-> R_NY, page |-> <<"4">>]

\* records handed to format_short_citation; the first four are the records
\* validate_full_citation returns for T_Alpha, T_Gamma, T_Blank and T_Pin
Rec_Alpha ==
  [case_name |-> <<"A","l","p","h","a"," ","v","."," ","B","e","t","a">>,
   volume |-> <<"1","0">>, reporter |-> R_US, page |-> <<"1","0","0">>,
   pinpoint |-> None, court |-> R_US, year |-> <<"1","8","0","0">>]

Rec_Gamma ==
  [case_name |-> <<"G","a","m","m","a"," ","v","."," ","D","e","l","t","a">>,
   volume |-> <<"1","1">>, reporter |-> R_US, page |-> <<"2","0","0">>,
   pinpoint |-> None, court |-> R_US, year |-> <<"1","8","0","1">>]

Rec_Blank ==
  [case_name |-> <<" ">>,
   volume |-> <<"1","0">>, reporter |-> R_US, page |-> <<"1","0","0">>,
   pinpoint |-> None, court |-> R_US, year |-> <<"1","8","0","0">>]

Rec_Pin ==
  [case_name |-> <<"A"," ","v","."," ","B">>,
   volume |-> <<"1">>, reporter |-> R_US, page |-> <<"2">>,
   pinpoint |-> <<"3">>, court |-> R_US, year |-> <<"1","9","5","4">>]

Rec_Par1 == [case_name |-> <<"A">>, volume |-> <<"1">>, reporter |-> R_US, page |-> <<"2">>,
             parallel |-> <<Par_A, Par_B>>]

Rec_Par2 == [case_name |-> <<"A">>, volume |-> <<"1">>, reporter |-> R_US, page |-> <<"2">>,
             parallel |-> <<Par_B, Par_A>>]

Rec_Statute == [code |-> <<"1","2"," ","C",".","S",".","C",".">>, section |-> <<"3","4","5","6">>]

Rec_Section == [section |-> <<"3","4","5","6">>]

Rec_Reg == [title |-> <<"2","9">>, section |-> <<"1","9","1","0">>]

Rec_Book == [author |-> <<"S","m","i","t","h">>, pinpoint |-> <<"5">>]

Rec_Author == [author |-> <<"S","m","i","t","h">>]

Rec_Article == [author |-> <<"J","o","n","e","s">>, page |-> <<"7">>]

SupportedKinds == {"case", "statute", "reg", "book", "article"}

(***************************************************************************)
(* State                                                                   *)
(***************************************************************************)
VARIABLES
  last_short_key,   \* per checker instance: self.last_short_key (NoneRec = None)
  full_citations,   \* per checker instance: self.full_citations, in insertion order
  fix,              \* the frame of the running auto_fix_citation call
  ret,              \* the last completed call and what it returned or raised
  trail             \* the latest format_short_citation calls of ShortSpec, oldest first

vars == <<last_short_key, full_citations, fix, ret, trail>>

\* how many format_short_citation calls the trail remembers
TrailLen == 3

\* the two checkers of the caller and the private one auto_fix_citation creates
Checkers == {"c1", "c2"}

FixChecker == "fix"

AllCheckers == Checkers \cup {FixChecker}

Idle == [pc |-> "idle"]

\* CitationChecker.__init__ for every instance
Init ==
  /\ last_short_key = [c \in AllCheckers |-> NoneRec]
  /\ full_citations = [c \in AllCheckers |-> <<>>]
  /\ fix = Idle
  /\ ret = [op |-> "none"]
  /\ trail = <<>>

(***************************************************************************)
(* Requests made by the caller                                             *)
(***************************************************************************)
\* <<full_comps, kind>> of the short-form requests studied alone
Requests ==
  {<<Rec_Alpha, "case">>, <<Rec_Gamma, "case">>, <<Rec_Blank, "case">>, <<Rec_Pin, "case">>,
   <<Rec_Par1, "case">>, <<Rec_Par2, "case">>,
   <<Rec_Statute, "statute">>, <<Rec_Section, "statute">>, <<Rec_Reg, "reg">>,
   <<Rec_Book, "book">>, <<Rec_Author, "book">>, <<Rec_Article, "article">>,
   <<Rec_Alpha, "book">>, <<Rec_Alpha, "court_rule">>}

\* the short-form requests made next to the other calls
RequestsOf(c) ==
  IF c = "c1"
  THEN {<<Rec_Alpha, "case">>, <<Rec_Gamma, "case">>, <<Rec_Blank, "case">>,
        <<Rec_Statute, "statute">>, <<Rec_Alpha, "court_rule">>}
  ELSE {<<Rec_Alpha, "case">>, <<Rec_Statute, "statute">>}

\* <<citation, provided_quote, pincite>>
FullArgs ==
  {<<T_Alpha, None, None>>, <<T_Gamma, None, None>>, <<T_Blank, None, None>>,
   <<T_Foo, None, None>>, <<T_Sup, None, None>>,
   <<T_Brown, None, P_In>>, <<T_Brown, Q_Brown, P_In>>, <<T_Brown, Q_Zzz, P_In>>,
   <<T_Brown, None, P_Out>>, <<T_Alpha, Q_Zzz, None>>, <<T_Alpha, None, P_In>>}

FullArgsOf(c) == IF c = "c1" THEN FullArgs ELSE {<<T_Alpha, None, None>>, <<T_Foo, None, None>>}

DocsOf(c) == IF c = "c1" THEN {D_Two, D_Dup, D_None} ELSE {D_Two}

Shorts == {SH_Alpha, SH_Gamma, SH_Id, SH_Both}

ValidateArgs == {<<"case", T_Alpha>>, <<"case", T_Foo>>, <<"bogus", T_Alpha>>,
                 <<"federal_regulation", T_Alpha>>}

\* 50 one-letter words: the shortest quote rendered as a block
Q_Block == [i \in 1..(2 * InlineQuoteWords - 1) |-> IF i % 2 = 1 THEN "w" ELSE " "]

Quotes == {Q_Brown, Q_Block}

\* arguments of auto_fix_citation next to the checker calls
FixArgsMain == {<<T_Alpha, None, None>>, <<T_BrownBad, None, None>>, <<T_Bogus, None, None>>}

FixTexts == {T_Alpha, T_Blank, T_Brown, T_BrownBad, T_BrownSp, T_Foo, T_Bogus, T_Sup,
             T_SupBad, T_March, T_Pin}

\* arguments of auto_fix_citation when it is studied alone
FixArgsAll == FixTexts \X {None, Q_Brown, Q_Zzz} \X {None, P_In, P_Out, P_Range}

\* what a text handed to the structural validator carries before its parenthetical
StructPrefixes ==
  {<<"A"," ","v","."," ","B",","," ","1"," ","U",".","S","."," ","2"," ">>,
   <<"A"," ","v","."," ","B"," ","1"," ","U",".","S","."," ","2"," ">>,
   <<"A"," ","v","."," ","B",","," ","U",".","S","."," ","2"," ">>,
   <<"A"," ","v","."," ","B"," ">>,
   <<>>,
   <<"A",","," ","1"," ","F","."," ","2",","," ","3"," ">>,
   <<"A"," ","v","."," ","B",","," ","1"," ","X","y","z"," ","2"," ">>}

\* and what it carries as its parenthetical
StructParentheticals ==
  {<<"(","U",".","S","."," ","1","9","5","4",")">>,
   <<"U",".","S","."," ","1","9","5","4">>,
   <<"(","1","9","5","4",")">>,
   <<"("," ","1","9","5","4",")">>,
   <<"(","U",".","S","."," ","1","9","5",")">>,
   <<"(",")">>,
   <<"(","U",".","S","."," ","1","9","5","4">>,
   <<"U",".","S","."," ","1","9","5","4",")">>,
   <<")","U",".","S","."," ","1","9","5","4","(">>,
   <<"(","U",".","S","."," ","1","9","5","4","5",")">>,
   <<"(","U",".","S","."," ","1","9","5","4",")"," ","(","x",")">>,
   <<"(","U",".","S","."," ","1","9","5","4",")"," ","x">>,
   <<"(","U",".","S","."," ","C","t","."," ","1","9","5","4",")">>,
   <<"(","U",".","S","."," "," ","1","9","5","4",")">>}

\* court texts and reporters of the records handed to validate_reporter_for_court
CourtTexts ==
  {<<"S","u","p","r","e","m","e"," ","C","o","u","r","t">>,
   <<"U",".","S",".">>,
   <<"2","d"," ","C","i","r",".">>,
   <<"D","i","s","t","r","i","c","t"," ","o","f"," ","C","o","l","u","m","b","i","a">>,
   <<"T",".","C",".">>,
   <<"C","t","."," ","C","l",".">>,
   <<"M",".","J",".">>,
   <<"V","e","t","."," ","A","p","p",".">>,
   <<>>,
   <<"N",".","Y",".">>,
   <<"S","u","p","r","e","m","e"," ","C","o","u","r","t",","," ","2","d"," ","C","i","r",".">>}

ReporterTexts ==
  {<<"U",".","S",".">>,
   <<"F",".","2","d">>,
   <<"F",".">>,
   <<"N",".","Y",".">>,
   <<"N",".","Y",".","S",".">>,
   <<"T",".","C",".">>,
   <<"C","a","l","."," ","A","p","p","."," ","4","t","h">>,
   <<"X","y","z">>}

CourtRecords == {[court |-> c, reporter |-> r] : c \in CourtTexts, r \in ReporterTexts}

\* a quote that is a bare signal, and a blank one
Q_Sig == <<"*","S","e","e","*">>

Q_Blank == << " " >>

\* ranges leaving the stored range of 347 U.S. 483 at one end
P_RangeOut == <<"4","8","5","-","6","0","0">>

P_RangeLow == <<"4","7","0","-","4","8","5">>

\* "Doe, 10 U.S. 100 (Doe County 1990)": the case name occurs in the court as well
T_Doe ==
  <<"D","o","e",","," ","1","0"," ","U",".","S","."," ","1","0","0"," ","(","D","o","e"," ","C","o","u","n","t","y"," ","1","9","9","0",")">>

\* "Foo v. Bar,, 123 U.S. 456 (U.S. 2000)" of test_strip_trailing_comma_on_case_name
T_FooBar ==
  <<"F","o","o"," ","v","."," ","B","a","r",",",","," ","1","2","3"," ","U",".","S","."," ","4","5","6"," ","(","U",".","S","."," ","2","0","0","0",")">>

\* "See v. Seattle, 387 U.S. 541 (U.S. 1967)": the case name opens with a signal word
T_See ==
  <<"S","e","e"," ","v","."," ","S","e","a","t","t","l","e",","," ","3","8","7"," ","U",".","S","."," ","5","4","1"," ","(","U",".","S","."," ","1","9","6","7",")">>

\* "John Doe v. Richard Roe, 1 U.S. 2 (U.S. 1954)": parties with first names
T_JohnDoe ==
  <<"J","o","h","n"," ","D","o","e"," ","v","."," ","R","i","c","h","a","r","d"," ","R","o","e",","," ","1"," ","U",".","S","."," ","2"," ","(","U",".","S","."," ","1","9","5","4",")">>

\* "A v. B, 1 Xyz 2 (U.S. 1954)": well-formed but for a reporter the grammar does not know
T_Xyz ==
  <<"A"," ","v","."," ","B",","," ","1"," ","X","y","z"," ","2"," ","(","U",".","S","."," ","1","9","5","4",")">>

\* the valid citations whose rendering is studied
RenderTexts == {T_Brown, T_Alpha, T_Gamma, T_Pin, T_March, T_Doe, T_FooBar, T_See, T_JohnDoe}

\* <<citation, provided_quote, pincite>> of the validate_full_citation calls made on
\* their own: those that reach the repository, the renderings, the malformed texts
StageArgs ==
  ({T_Brown, T_Alpha, T_Other} \X {None, Q_Brown, Q_Zzz, Q_Sig, Q_Blank}
     \X {None, P_In, P_Out, P_Range, P_RangeOut, P_RangeLow})
  \cup {<<t, None, None>> : t \in RenderTexts}
  \cup ({T_BrownBad, T_Foo, T_Bogus, T_Sup, T_Xyz} \X {None, Q_Zzz} \X {None, P_In, P_Out})

\* the texts the validator stages are studied on
StructTexts == {p \o q : p \in StructPrefixes, q \in StructParentheticals}

StageTexts == StructTexts \cup {T_Brown, T_BrownBad, T_Foo, T_Bogus}

(***************************************************************************)
(* The pure stages, tabulated once over the arguments the specifications   *)
(* use                                                                     *)
(***************************************************************************)
FixFormatTable ==
  {[arg |-> t, out |-> fix_citation_format(t)] : t \in {a[1] : a \in FixArgsAll \cup FixArgsMain}}

FixFormatOut(citation) == (CHOOSE r \in FixFormatTable : r.arg = citation).out

FixedArgs == {<<FixFormatOut(a[1]), a[2], a[3]>> : a \in FixArgsAll \cup FixArgsMain}

ValidateFullTable ==
  {[arg |-> a, out |-> validate_full_citation(a[1], a[2], a[3])] :
     a \in FullArgs \cup FixArgsAll \cup FixArgsMain \cup FixedArgs \cup StageArgs}

ValidateFullOut(citation, provided_quote, pincite) ==
  (CHOOSE r \in ValidateFullTable : r.arg = <<citation, provided_quote, pincite>>).out

ProcessDocumentTable ==
  {[arg |-> d, out |-> process_document(d)] : d \in {D_Two, D_Dup, D_None}}

ProcessDocumentOut(text) == (CHOOSE r \in ProcessDocumentTable : r.arg = text).out

FormatQuoteTable ==
  {[arg |-> <<q, T_Alpha>>, out |-> format_quote(q, T_Alpha)] : q \in Quotes}

FormatQuoteOut(quote, citation_str) ==
  (CHOOSE r \in FormatQuoteTable : r.arg = <<quote, citation_str>>).out

(***************************************************************************)
(* Calls on a checker                                                      *)
(***************************************************************************)
\* the trail with one more call, cut to its latest TrailLen
Logged(call) ==
  LET t == Append(trail, call)
  IN IF Len(t) <= TrailLen THEN t ELSE SubSeq(t, Len(t) - TrailLen + 1, Len(t))

\* the call's effect on the checker; ret.before is self.last_short_key on entry
ShortCall(c, full_comps, kind) ==
  /\ fix.pc = "idle"
  /\ \E r \in {format_short_citation(last_short_key[c], full_comps, kind)} :
       /\ last_short_key' = [last_short_key EXCEPT ![c] = r.last_short_key]
       /\ ret' = [op |-> "format_short_citation", self |-> c, full_comps |-> full_comps,
                  kind |-> kind, status |-> r.status, value |-> r.value,
                  before |-> last_short_key[c]]
  /\ UNCHANGED <<full_citations, fix>>

FormatShortCitation(c, full_comps, kind) ==
  /\ ShortCall(c, full_comps, kind)
  /\ UNCHANGED trail

\* the same call, remembered in the trail
FormatShortCitationTraced(c, full_comps, kind) ==
  /\ ShortCall(c, full_comps, kind)
  /\ trail' = Logged([self |-> c, full_comps |-> full_comps, kind |-> kind,
                      status |-> ret'.status, value |-> ret'.value])

\* validate_full_citation starting a new discussion: a validated citation clears
\* the current work
ValidateFullCitation_resetting(c, citation, provided_quote, pincite) ==
  /\ fix.pc = "idle"
  /\ ret' = [op |-> "validate_full_citation", self |-> c, citation |-> citation,
             provided_quote |-> provided_quote, pincite |-> pincite,
             out |-> ValidateFullOut(citation, provided_quote, pincite)]
  /\ last_short_key' = IF ret'.out.status = "ok"
                       THEN [last_short_key EXCEPT ![c] = NoneRec]
                       ELSE last_short_key
  /\ UNCHANGED <<full_citations, fix, trail>>

ValidateFullCitation(c, citation, provided_quote, pincite) ==
  /\ fix.pc = "idle"
  /\ ret' = [op |-> "validate_full_citation", self |-> c, citation |-> citation,
             provided_quote |-> provided_quote, pincite |-> pincite,
             out |-> ValidateFullOut(citation, provided_quote, pincite)]
  /\ UNCHANGED <<last_short_key, full_citations, fix, trail>>

Validate(c, kind, citation) ==
  /\ fix.pc = "idle"
  /\ ret' = [op |-> "validate", self |-> c, kind |-> kind, citation |-> citation,
             out |-> validate(kind, citation)]
  /\ UNCHANGED <<last_short_key, full_citations, fix, trail>>

\* process_document without the clear(): the new entries join the stored ones
ProcessDocument_merging(c, text) ==
  /\ fix.pc = "idle"
  /\ \E out \in {IndexSegments(SplitSegments(text), full_citations[c])} :
       /\ full_citations' = [full_citations EXCEPT ![c] = out]
       /\ ret' = [op |-> "process_document", self |-> c, text |-> text, out |-> out]
  /\ UNCHANGED <<last_short_key, fix, trail>>

ProcessDocument(c, text) ==
  /\ fix.pc = "idle"
  /\ \E out \in {ProcessDocumentOut(text)} :
       /\ full_citations' = [full_citations EXCEPT ![c] = out]
       /\ ret' = [op |-> "process_document", self |-> c, text |-> text, out |-> out]
  /\ UNCHANGED <<last_short_key, fix, trail>>

ResolveShortCitation(c, short) ==
  /\ fix.pc = "idle"
  /\ ret' = [op |-> "resolve_short_citation", self |-> c, short |-> short,
             out |-> resolve_short_citation(full_citations[c], short)]
  /\ UNCHANGED <<last_short_key, full_citations, fix, trail>>

FormatQuote(c, quote, citation_str) ==
  /\ fix.pc = "idle"
  /\ ret' = [op |-> "format_quote", self |-> c, quote |-> quote,
             out |-> FormatQuoteOut(quote, citation_str)]
  /\ UNCHANGED <<last_short_key, full_citations, fix, trail>>

\* the structural validator called on its own
CollectFormatErrors(c, citation) ==
  /\ fix.pc = "idle"
  /\ ret' = [op |-> "_collect_format_errors", self |-> c, citation |-> citation,
             out |-> _collect_format_errors(citation)]
  /\ UNCHANGED <<last_short_key, full_citations, fix, trail>>

\* the reporter-court check called on its own
ValidateReporterForCourt(citation_components) ==
  /\ fix.pc = "idle"
  /\ ret' = [op |-> "validate_reporter_for_court", citation_components |-> citation_components,
             out |-> validate_reporter_for_court(citation_components)]
  /\ UNCHANGED <<last_short_key, full_citations, fix, trail>>

(***************************************************************************)
(* auto_fix_citation, one action per step                                  *)
(***************************************************************************)
\* what a finished call hands to its caller, with the calls it made
FixReturn(status, value, calls, reformats) ==
  [op |-> "auto_fix_citation", citation |-> fix.citation,
   provided_quote |-> fix.provided_quote, pincite |-> fix.pincite,
   status |-> status, value |-> value, calls |-> calls, reformats |-> reformats]

\* entry: checker = CitationChecker()
AutoFixStart(citation, provided_quote, pincite) ==
  /\ fix.pc = "idle"
  /\ fix' = [pc |-> "validate_original", citation |-> citation,
             provided_quote |-> provided_quote, pincite |-> pincite,
             fixed |-> None, calls |-> <<>>, reformats |-> 0]
  /\ last_short_key' = [last_short_key EXCEPT ![FixChecker] = NoneRec]
  /\ full_citations' = [full_citations EXCEPT ![FixChecker] = <<>>]
  /\ ret' = [op |-> "auto_fix_citation", status |-> "running"]
  /\ UNCHANGED trail

\* step 1 handing back the normalised text of a valid original
AutoFixValidateOriginal_normalised ==
  /\ fix.pc = "validate_original"
  /\ \E out \in {ValidateFullOut(fix.citation, fix.provided_quote, fix.pincite)} :
       LET calls == Append(fix.calls, [citation |-> fix.citation, out |-> out])
       IN /\ IF out.status = "ok"
             THEN /\ ret' = FixReturn("ok", abbreviate_months_in_citation(fix.citation), calls,
                                      fix.reformats)
                  /\ fix' = Idle
             ELSE IF out.status = "CitationValidationException"
             THEN /\ fix' = [fix EXCEPT !.pc = "reformat", !.calls = calls]
                  /\ UNCHANGED ret
             ELSE /\ ret' = FixReturn("ValueError", out.message, calls, fix.reformats)
                  /\ fix' = Idle
  /\ UNCHANGED <<last_short_key, full_citations, trail>>

\* 1) try validating the original
AutoFixValidateOriginal ==
  /\ fix.pc = "validate_original"
  /\ \E out \in {ValidateFullOut(fix.citation, fix.provided_quote, fix.pincite)} :
       LET calls == Append(fix.calls, [citation |-> fix.citation, out |-> out])
       IN /\ IF out.status = "ok"
             THEN /\ ret' = FixReturn("ok", fix.citation, calls, fix.reformats)
                  /\ fix' = Idle
             ELSE IF out.status = "CitationValidationException"
             THEN /\ fix' = [fix EXCEPT !.pc = "reformat", !.calls = calls]
                  /\ UNCHANGED ret
             ELSE /\ ret' = FixReturn("ValueError", out.message, calls, fix.reformats)
                  /\ fix' = Idle
  /\ UNCHANGED <<last_short_key, full_citations, trail>>

\* step 2 handing an unchanged text on to the re-validation
AutoFixReformat_revalidating ==
  /\ fix.pc = "reformat"
  /\ fix' = [fix EXCEPT !.pc = "revalidate", !.fixed = FixFormatOut(fix.citation),
                        !.reformats = fix.reformats + 1]
  /\ UNCHANGED <<ret, last_short_key, full_citations, trail>>

\* 2) generate a fixed version; give up when nothing changed
AutoFixReformat ==
  /\ fix.pc = "reformat"
  /\ \E fixed \in {FixFormatOut(fix.citation)} :
       IF fixed = fix.citation
       THEN /\ ret' = FixReturn("CitationFixError",
                                [reason |-> "No changes made; still invalid",
                                 citation |-> fix.citation],
                                fix.calls, fix.reformats + 1)
            /\ fix' = Idle
       ELSE /\ fix' = [fix EXCEPT !.pc = "revalidate", !.fixed = fixed,
                                  !.reformats = fix.reformats + 1]
            /\ UNCHANGED ret
  /\ UNCHANGED <<last_short_key, full_citations, trail>>

\* step 3 going round once more when the fixed text is still invalid
AutoFixRevalidate_retrying ==
  /\ fix.pc = "revalidate"
  /\ \E out \in {ValidateFullOut(fix.fixed, fix.provided_quote, fix.pincite)} :
       LET calls == Append(fix.calls, [citation |-> fix.fixed, out |-> out])
       IN /\ IF out.status = "ok"
             THEN /\ ret' = FixReturn("ok", fix.fixed, calls, fix.reformats)
                  /\ fix' = Idle
             ELSE IF out.status = "CitationValidationException" /\ fix.reformats < 2
             THEN /\ fix' = [fix EXCEPT !.pc = "reformat", !.calls = calls]
                  /\ UNCHANGED ret
             ELSE IF out.status = "CitationValidationException"
             THEN /\ ret' = FixReturn("CitationFixError",
                                      [reason |-> "Unable to automatically fix citation",
                                       original_errors |-> out.errors,
                                       tried_fix |-> fix.fixed],
                                      calls, fix.reformats)
                  /\ fix' = Idle
             ELSE /\ ret' = FixReturn("ValueError", out.message, calls, fix.reformats)
                  /\ fix' = Idle
  /\ UNCHANGED <<last_short_key, full_citations, trail>>

\* step 3 handing back the fixed text whatever the re-validation says
AutoFixRevalidate_unchecked ==
  /\ fix.pc = "revalidate"
  /\ \E out \in {ValidateFullOut(fix.fixed, fix.provided_quote, fix.pincite)} :
       LET calls == Append(fix.calls, [citation |-> fix.fixed, out |-> out])
       IN /\ ret' = FixReturn("ok", fix.fixed, calls, fix.reformats)
  /\ fix' = Idle
  /\ UNCHANGED <<last_short_key, full_citations, trail>>

\* 3) re-validate
AutoFixRevalidate ==
  /\ fix.pc = "revalidate"
  /\ \E out \in {ValidateFullOut(fix.fixed, fix.provided_quote, fix.pincite)} :
       LET calls == Append(fix.calls, [citation |-> fix.fixed, out |-> out])
       IN /\ IF out.status = "ok"
             THEN ret' = FixReturn("ok", fix.fixed, calls, fix.reformats)
             ELSE IF out.status = "CitationValidationException"
             THEN ret' = FixReturn("CitationFixError",
                                   [reason |-> "Unable to automatically fix citation",
                                    original_errors |-> out.errors,
                                    tried_fix |-> fix.fixed],
                                   calls, fix.reformats)
             ELSE ret' = FixReturn("ValueError", out.message, calls, fix.reformats)
  /\ fix' = Idle
  /\ UNCHANGED <<last_short_key, full_citations, trail>>

AutoFixStep == AutoFixValidateOriginal \/ AutoFixReformat \/ AutoFixRevalidate

(***************************************************************************)
(* Specifications                                                          *)
(***************************************************************************)
Next ==
  \/ \E c \in Checkers : \E rq \in RequestsOf(c) : FormatShortCitation(c, rq[1], rq[2])
  \/ \E c \in Checkers : \E a \in FullArgsOf(c) : ValidateFullCitation(c, a[1], a[2], a[3])
  \/ \E c \in Checkers : \E a \in ValidateArgs : Validate(c, a[1], a[2])
  \/ \E c \in Checkers : \E d \in DocsOf(c) : ProcessDocument(c, d)
  \/ \E c \in Checkers : \E sh \in Shorts : ResolveShortCitation(c, sh)
  \/ \E c \in Checkers : \E q \in Quotes : FormatQuote(c, q, T_Alpha)
  \/ \E a \in FixArgsMain : AutoFixStart(a[1], a[2], a[3])
  \/ AutoFixValidateOriginal
  \/ AutoFixReformat
  \/ AutoFixRevalidate

Spec == Init /\ [][Next]_vars

\* format_short_citation alone, over all its requests on one checker
ShortNext == \E rq \in Requests : FormatShortCitationTraced("c1", rq[1], rq[2])

ShortSpec == Init /\ [][ShortNext]_vars

\* auto_fix_citation alone, over all its arguments
FixNext ==
  \/ \E a \in FixArgsAll : AutoFixStart(a[1], a[2], a[3])
  \/ AutoFixValidateOriginal
  \/ AutoFixReformat
  \/ AutoFixRevalidate

FixSpec == Init /\ [][FixNext]_vars

\* the call is synchronous: once entered it runs to its return or raise
FairFixSpec == FixSpec /\ WF_vars(AutoFixStep)

\* the stages of validate_full_citation, each called on its own
StageNext ==
  \/ \E t \in StageTexts : CollectFormatErrors("c1", t)
  \/ \E r \in CourtRecords : ValidateReporterForCourt(r)
  \/ \E a \in StageArgs : ValidateFullCitation("c1", a[1], a[2], a[3])

StageSpec == Init /\ [][StageNext]_vars

(***************************************************************************)
(* Properties                                                              *)
(***************************************************************************)
\* a finished auto_fix_citation call
FixDone == ret.op = "auto_fix_citation" /\ ret.status # "running"

\* the latest completed call is a format_short_citation call
ShortDone == ret.op = "format_short_citation"

\* C1: a format_short_citation request whose key equals last_short_key returns
\* "Id. at <pin>." when the pin is non-empty and "Id." otherwise and leaves
\* last_short_key unchanged; a request repeated right after its own success on
\* the same checker yields the Id. form, and from a fresh checker the Alpha case
\* yields "Alpha, 10 U.S. at 100." and then "Id. at 100."
C1_IdOnSameKey ==
  /\ [](ShortDone /\ ret.before = KeyOf(ret.full_comps, ret.kind)
        => /\ ret.status = "ok"
           /\ ret.value = IF Truthy(ret.before.pin)
                          THEN S_IdAt \o ret.before.pin \o <<".">>
                          ELSE S_Id
           /\ last_short_key[ret.self] = ret.before)
  /\ [](ShortDone /\ ret.before = NoneRec /\ ret.full_comps = Rec_Alpha /\ ret.kind = "case"
        => ret.value = SH_Alpha)
  /\ [][ShortDone /\ ret.status = "ok" /\ ret'.op = "format_short_citation"
        /\ ret'.self = ret.self /\ ret'.full_comps = ret.full_comps /\ ret'.kind = ret.kind
        => /\ ret'.status = "ok"
           /\ ret'.before = KeyOf(ret.full_comps, ret.kind)
           /\ StartsWith(ret'.value, S_Id)
           /\ (ret.value = SH_Alpha
               => ret'.value = <<"I","d","."," ","a","t"," ","1","0","0",".">>)]_vars

\* C1 reached: "Alpha, 10 U.S. at 100." was followed by "Id. at 100." on one checker
C1_ExplicitThenId ==
  /\ Len(trail) >= 2
  /\ trail[Len(trail) - 1].full_comps = Rec_Alpha /\ trail[Len(trail) - 1].kind = "case"
  /\ trail[Len(trail) - 1].value = SH_Alpha
  /\ ShortDone /\ ret.full_comps = Rec_Alpha /\ ret.kind = "case"
  /\ ret.before = KeyOf(Rec_Alpha, "case")
  /\ ret.value = <<"I","d","."," ","a","t"," ","1","0","0",".">>

\* C2: a format_short_citation request of kind case, statute or reg whose key
\* differs from last_short_key (unset included) returns the explicit short form,
\* never an Id. form, and afterwards last_short_key is the key of that request
C2_ExplicitOnNewKey ==
  ShortDone /\ ret.kind \in {"case", "statute", "reg"}
  /\ ret.before # KeyOf(ret.full_comps, ret.kind)
  => /\ ret.status = "ok"
     /\ ~StartsWith(ret.value, S_Id)
     /\ last_short_key[ret.self] = KeyOf(ret.full_comps, ret.kind)

\* C2 refuted: the record of a validated citation whose case name is one blank
\* makes the case request raise IndexError and leaves last_short_key as it was
C2_BlankNameRaises ==
  /\ ShortDone /\ ret.kind = "case" /\ ret.full_comps = Rec_Blank
  /\ validate_full_citation(T_Blank, None, None).status = "ok"
  /\ CompsOf(T_Blank) = Rec_Blank
  /\ ret.before # KeyOf(Rec_Blank, "case")
  /\ ret.status = "IndexError"
  /\ last_short_key[ret.self] = ret.before

\* the three latest format_short_citation calls are case(r), statute(s), case(r)
\* on one checker, the first of them successful
CaseStatuteCase ==
  /\ Len(trail) >= 3
  /\ LET n == Len(trail)
     IN /\ trail[n - 2].self = trail[n].self /\ trail[n - 1].self = trail[n].self
        /\ trail[n - 2].kind = "case" /\ trail[n - 2].status = "ok"
        /\ trail[n - 1].kind = "statute"
        /\ trail[n].kind = "case" /\ trail[n].full_comps = trail[n - 2].full_comps

C4_KeyOnlyByShortForm ==
  /\ [][\A c \in AllCheckers :
          /\ last_short_key'[c] # last_short_key[c]
             => /\ ret'.op = "format_short_citation" /\ ret'.self = c
                /\ ret'.status = "ok"
                /\ ret'.before = last_short_key[c]
          /\ last_short_key[c] # NoneRec => last_short_key'[c] # NoneRec]_vars
  /\ [](last_short_key[FixChecker] = NoneRec)

\* C4 reached: with Alpha the current work of c1, a full validation succeeded on
\* c1 and left it the current work
C4_KeptAcrossValidation ==
  /\ ret.op = "validate_full_citation" /\ ret.self = "c1" /\ ret.out.status = "ok"
  /\ ret.citation = T_Gamma
  /\ last_short_key["c1"] = KeyOf(Rec_Alpha, "case")

\* C5: a format_short_citation request with a kind outside case, statute, reg,
\* book, article fails with "Unsupported short form kind" in every state and
\* leaves last_short_key unchanged
C5_UnsupportedKindFails ==
  ShortDone /\ ret.kind \notin SupportedKinds
  => /\ ret.status = "ValueError"
     /\ ret.value = "Unsupported short form kind"
     /\ last_short_key[ret.self] = ret.before

\* C5 reached: Alpha is the current work as a case and is requested as a
\* court_rule, so only the kind keeps the keys apart
C5_SameWorkOtherKind ==
  /\ ShortDone /\ ret.kind = "court_rule" /\ ret.full_comps = Rec_Alpha
  /\ ret.before = KeyOf(Rec_Alpha, "case")
  /\ ret.status = "ValueError"
  /\ last_short_key[ret.self] = KeyOf(Rec_Alpha, "case")

\* C6: one auto_fix_citation call applies the reformat at most once, validates
\* at most twice (the original first, then at most the reformatted text), and
\* ends with a returned string or a failure
C6_AtMostOneRetry ==
  /\ [](fix.pc # "idle" => fix.reformats <= 1 /\ Len(fix.calls) <= 2)
  /\ [](FixDone
        => /\ ret.reformats <= 1
           /\ Len(ret.calls) \in 1..2
           /\ ret.calls[1].citation = ret.citation
           /\ (Len(ret.calls) = 2
               => /\ ret.reformats = 1
                  /\ ret.calls[2].citation = fix_citation_format(ret.citation))
           /\ ret.status \in {"ok", "CitationFixError", "ValueError"})
  /\ (fix.pc # "idle" ~> (fix.pc = "idle" /\ FixDone))

\* C6 reached: a call that reformatted once, validated twice and failed
C6_TwoValidationsThenFailure ==
  /\ FixDone /\ ret.status = "CitationFixError"
  /\ ret.reformats = 1 /\ Len(ret.calls) = 2

\* C7: whenever validation of the original fails, for whatever reason, exactly
\* one reformat is attempted before the call fails or returns
C7_ReformatOnAnyFailure ==
  FixDone /\ ret.calls[1].out.status # "ok" => ret.reformats = 1

\* C7 refuted: the original fails validation with a ValueError (reporter/court
\* mismatch, not found, pincite out of range, quote mismatch) and the call ends
\* on it with no reformat attempted
C7_SemanticFailureEscapes ==
  /\ FixDone /\ ret.status = "ValueError"
  /\ Len(ret.calls) = 1 /\ ret.calls[1].citation = ret.citation
  /\ ret.calls[1].out.status = "ValueError"
  /\ ret.reformats = 0

\* C8: when re-validation of the repaired text fails, the failure carries the
\* validation errors of the original citation together with the repaired text
C8_CarriesOriginalErrors ==
  FixDone /\ ret.status = "CitationFixError" /\ Len(ret.calls) = 2
  => /\ ret.value.tried_fix = ret.calls[2].citation
     /\ ret.value.original_errors = ret.calls[1].out.errors

\* C8 refuted: the failure carries the errors of the repaired text, which are
\* not those of the original
C8_CarriesRepairedErrors ==
  /\ FixDone /\ ret.status = "CitationFixError" /\ Len(ret.calls) = 2
  /\ ret.citation = T_Foo
  /\ ret.value.original_errors = ret.calls[2].out.errors
  /\ ret.value.original_errors # ret.calls[1].out.errors

\* C9: every string auto_fix_citation returns passes validate_full_citation with
\* the same quote and pincite, it is the text of the call's latest validation,
\* which succeeded, and "Brown v. Board 347 U.S. 483 U.S. 1954" is repaired
C9_ReturnedTextValidates ==
  /\ FixDone /\ ret.status = "ok"
     => /\ validate_full_citation(ret.value, ret.provided_quote, ret.pincite).status = "ok"
        /\ ret.calls[Len(ret.calls)].citation = ret.value
        /\ ret.calls[Len(ret.calls)].out.status = "ok"
  /\ FixDone /\ ret.citation = T_BrownBad /\ ret.provided_quote = None /\ ret.pincite = None
     => ret.status = "ok"

\* C9 reached: the Brown citation without comma and parentheses came back
\* repaired after its second validation
C9_BrownRepaired ==
  /\ FixDone /\ ret.status = "ok" /\ ret.citation = T_BrownBad
  /\ ret.value = T_Brown /\ ret.value # ret.citation
  /\ Len(ret.calls) = 2 /\ ret.reformats = 1

\* C10: if the original citation passes full validation, auto_fix_citation
\* returns exactly the input string, without a reformat and without a second
\* validation
C10_ValidReturnedUnchanged ==
  FixDone /\ validate_full_citation(ret.citation, ret.provided_quote, ret.pincite).status = "ok"
  => /\ ret.status = "ok"
     /\ ret.value = ret.citation
     /\ ret.reformats = 0
     /\ Len(ret.calls) = 1

\* C10 reached: a valid citation that the validator normalises ("March" becomes
\* "Mar.") came back as it was given
C10_UnnormalisedKept ==
  /\ FixDone /\ ret.status = "ok" /\ ret.citation = T_March
  /\ ret.value = T_March /\ abbreviate_months_in_citation(T_March) # T_March
  /\ ret.reformats = 0 /\ Len(ret.calls) = 1

\* C11: when the original fails structural validation and fix_citation_format
\* hands back the text unchanged, auto_fix_citation fails at once with the
\* no-change condition: one reformat, one validation, no second validation
C11_NoChangeFailsAtOnce ==
  FixDone /\ ret.calls[1].out.status = "CitationValidationException"
  /\ fix_citation_format(ret.citation) = ret.citation
  => /\ ret.status = "CitationFixError"
     /\ ret.value = [reason |-> "No changes made; still invalid", citation |-> ret.citation]
     /\ ret.reformats = 1
     /\ Len(ret.calls) = 1

\* C11 reached: "completely bogus text", which the extraction pattern does not
\* match, failed with the no-change condition after its only validation
C11_BogusUnchanged ==
  /\ FixDone /\ ret.citation = T_Bogus
  /\ ~FixMatch(Strip(T_Bogus)).matched
  /\ ret.calls[1].out.status = "CitationValidationException"
  /\ ret.status = "CitationFixError"
  /\ ret.value.reason = "No changes made; still invalid"
  /\ Len(ret.calls) = 1

\* the checks of the structural validator, in the order it makes them
CheckOrder ==
  <<"parentheses", "comma", "volume_reporter_page", "parenthetical_contents", "year", "court",
    "overall">>

CheckRank(f) == CHOOSE i \in 1..Len(CheckOrder) : CheckOrder[i] = f

\* a "(" and a ")" both occur in t
BothParens(t) == \E i, j \in 1..Len(t) : t[i] = "(" /\ t[j] = ")"

\* what lies between the first "(" and the last ")"
Interior(t) == PySlice(t, Find(t, "(") + 1, RFind(t, ")"))

\* k is the last space of the parenthetical interior x
LastSpace(x, k) == k \in 1..Len(x) /\ x[k] = " " /\ \A j \in (k + 1)..Len(x) : x[j] # " "

\* t violates one of the first six checks
ViolatesCheck(t, f) ==
  CASE f = "parentheses" -> ~BothParens(t)
    [] f = "comma" -> \A i \in 1..Len(t) : t[i] = "," => \E j \in 1..(i - 1) : t[j] = "("
    [] f = "volume_reporter_page" -> ~HasVolumeReporterPage(PrefixBeforeParen(t))
    [] f = "parenthetical_contents" ->
         BothParens(t) /\ \A k \in 1..Len(Interior(t)) : Interior(t)[k] # " "
    [] f = "year" ->
         BothParens(t) /\ \E k \in 1..Len(Interior(t)) :
           /\ LastSpace(Interior(t), k)
           /\ ~(/\ Len(Interior(t)) - k = 4
                /\ \A j \in (k + 1)..Len(Interior(t)) : Interior(t)[j] \in Digits)
    [] f = "court" ->
         BothParens(t) /\ \E k \in 1..Len(Interior(t)) :
           /\ LastSpace(Interior(t), k)
           /\ \A j \in 1..(k - 1) : Interior(t)[j] \in Space

\* t violates the check named f; the seventh is made only when the six found nothing
Violates(t, f) ==
  IF f = "overall"
  THEN (\A i \in 1..6 : ~ViolatesCheck(t, CheckOrder[i])) /\ ~CITATION_PATTERN(t).matched
  ELSE ViolatesCheck(t, f)

\* C12: the structural validator reports every violated check and nothing else, one
\* error per check and in the order of the checks; in particular a text that lacks
\* both the parentheses and the comma before them gets both errors.
C12_EveryViolationInCheckOrder ==
  ret.op = "_collect_format_errors" =>
    /\ \A i \in 1..Len(CheckOrder) :
         (\E n \in 1..Len(ret.out) : ret.out[n].field = CheckOrder[i])
           <=> Violates(ret.citation, CheckOrder[i])
    /\ \A n \in 1..Len(ret.out) : \A k \in (n + 1)..Len(ret.out) :
         CheckRank(ret.out[n].field) < CheckRank(ret.out[k].field)
    /\ (~BothParens(ret.citation) /\ Find(PrefixBeforeParen(ret.citation), ",") = -1
          => /\ Len(ret.out) >= 2
             /\ ret.out[1].field = "parentheses"
             /\ ret.out[2].field = "comma")

\* C12 witness: the text of test_missing_comma_and_parentheses gets both errors, the
\* parentheses first.
C12_FooMissingBoth ==
  /\ ret.op = "_collect_format_errors" /\ ret.citation = T_Foo
  /\ ~BothParens(T_Foo)
  /\ [n \in 1..Len(ret.out) |-> ret.out[n].field] = <<"parentheses", "comma">>

\* the latest call is validate_reporter_for_court on a court text of a federal level
FederalCourtChecked ==
  /\ ret.op = "validate_reporter_for_court"
  /\ map_federal_court_level(ret.citation_components.court) \notin {NoLevel, "Unknown"}

\* C13: when the court text maps to a federal level, validate_reporter_for_court
\* succeeds if the reporter is in that level's allowed set and fails if it is not,
\* whatever the state-level check would say of the reporter.
C13_FederalLevelDecides ==
  FederalCourtChecked =>
    (ret.out <=> ret.citation_components.reporter
                   \in COURT_REPORTER_MAPPING[map_federal_court_level(ret.citation_components.court)])

\* C13 witness: "Supreme Court" with "F.2d" fails, and "Supreme Court" with "N.Y."
\* fails as well although the New York check would accept the reporter.
C13_SupremeCourtRejects ==
  /\ FederalCourtChecked
  /\ ret.citation_components.court = <<"S","u","p","r","e","m","e"," ","C","o","u","r","t">>
  /\ ret.citation_components.reporter \in {R_F2d, R_NY}
  /\ map_state_court_level([court |-> <<>>, reporter |-> R_NY]) = "New York"
  /\ ~validate_reporter_for_court([court |-> ret.citation_components.court, reporter |-> R_F2d])
  /\ ~ret.out

\* the latest call is a validate_full_citation that got past the reporter checks
SemanticStage ==
  /\ ret.op = "validate_full_citation"
  /\ ret.out.status # "CitationValidationException"
  /\ ret.out.status = "ValueError"
       => ret.out.message \notin {"Reporter not allowed", "Reporter not valid for court"}

\* what the repository holds for the volume, reporter and page of a valid text
RepositoryRecord(citation) ==
  DbGet(CompsOf(citation).volume \o <<"_">> \o CompsOf(citation).reporter \o <<"_">>
          \o CompsOf(citation).page)

\* the page, or both pages of the range, lie within the record's valid range
PinWithin(pincite, rec) ==
  \A i \in 1..Len(SplitDash(pincite)) :
    /\ rec.valid_pin_range[1] <= IntOf(SplitDash(pincite)[i])
    /\ IntOf(SplitDash(pincite)[i]) <= rec.valid_pin_range[2]

\* the claim for a call whose repository record is rec (NoneRec when there is none)
RepositoryDecides(rec) ==
  /\ rec = NoneRec => ret.out.status = "ValueError"
  /\ rec # NoneRec /\ ret.pincite # None /\ ~PinWithin(ret.pincite, rec)
       => ret.out.status = "ValueError"
  /\ rec # NoneRec /\ (ret.pincite = None \/ PinWithin(ret.pincite, rec))
       => /\ ret.out.status = "ValueError"
               => ret.out.message = "Provided quote does not match source text"
          /\ ret.out.status = "ok" => ret.out.data = rec

\* C14: a validate_full_citation call given a pincite or a quote consults the
\* repository: it fails when there is no record, fails when the pincite or an end
\* of the range is outside the record's range, and otherwise does not fail for the
\* repository's sake and hands back the record.
C14_QuoteOrPinciteConsultsRepository ==
  SemanticStage /\ (ret.pincite # None \/ ret.provided_quote # None)
    => RepositoryDecides(RepositoryRecord(ret.citation))

\* C14: the same with a pincite supplied, which is when the code makes the lookup
C14_PinciteConsultsRepository ==
  SemanticStage /\ ret.pincite # None => RepositoryDecides(RepositoryRecord(ret.citation))

\* C14 witness: a quote alone passes although the repository has no record
C14_QuoteAloneSkipsRepository ==
  /\ SemanticStage
  /\ ret.citation = T_Alpha /\ ret.provided_quote = Q_Blank /\ ret.pincite = None
  /\ RepositoryRecord(T_Alpha) = NoneRec
  /\ ret.out.status = "ok"

\* what the pattern finds in each segment of a document, in the order of the segments
MatchesOf(text) ==
  [i \in 1..Len(SplitSegments(text)) |-> CITATION_PATTERN(SplitSegments(text)[i])]

\* stored is the index of the citations found: one entry per key, holding the last
\* citation found with that key, and nothing else
IsIndexOf(stored, found) ==
  /\ \A i \in 1..Len(stored) : \A j \in 1..Len(stored) : stored[i].key = stored[j].key => i = j
  /\ \A i \in 1..Len(stored) : stored[i].key = CompositeKey(stored[i].comps)
  /\ \A i \in 1..Len(stored) :
       \E n \in 1..Len(found) :
         /\ found[n].matched
         /\ stored[i].comps = GroupDict(found[n])
         /\ \A k \in (n + 1)..Len(found) :
              found[k].matched => CompositeKey(found[k]) # stored[i].key
  /\ \A n \in 1..Len(found) :
       found[n].matched => \E i \in 1..Len(stored) : stored[i].key = CompositeKey(found[n])

\* C15: after process_document(text) the checker's stored mapping is the index of
\* the citations found in text alone: one entry per composite key, each the last
\* citation found with that key and filed under the key of its own record, with
\* nothing left of an earlier call.
C15_StoredMappingIsThisCallsIndex ==
  ret.op = "process_document" =>
    /\ IsIndexOf(full_citations[ret.self], MatchesOf(ret.text))
    /\ ret.out = full_citations[ret.self]

\* C15 witness: of "Alpha...;Other...; completely bogus text", whose two citations
\* share the key 10_U.S._100, the one entry kept is the later one.
C15_DuplicateKeyKeepsLast ==
  /\ ret.op = "process_document" /\ ret.text = D_Dup
  /\ MatchesOf(D_Dup)[1].matched /\ MatchesOf(D_Dup)[2].matched /\ ~MatchesOf(D_Dup)[3].matched
  /\ CompositeKey(MatchesOf(D_Dup)[1]) = CompositeKey(MatchesOf(D_Dup)[2])
  /\ Len(full_citations[ret.self]) = 1
  /\ full_citations[ret.self][1].comps.case_name = <<"O","t","h","e","r">>

\* the stored record at position i matches the short text
ShortMatches(stored, i, short) ==
  /\ \E k \in 0..(Len(short) - Len(stored[i].comps.volume)) :
       SubSeq(short, k + 1, k + Len(stored[i].comps.volume)) = stored[i].comps.volume
  /\ \E k \in 0..(Len(short) - Len(stored[i].comps.reporter)) :
       SubSeq(short, k + 1, k + Len(stored[i].comps.reporter)) = stored[i].comps.reporter

\* call, the outcome of resolve_short_citation on the stored mapping, is the first
\* matching record, or the failure when no record matches
FirstMatchOf(call, stored) ==
  /\ call.out.status = "ok"
       => \E i \in 1..Len(stored) :
            /\ ShortMatches(stored, i, call.short)
            /\ \A j \in 1..(i - 1) : ~ShortMatches(stored, j, call.short)
            /\ call.out.value = stored[i].comps
  /\ call.out.status = "KeyError" <=> \A i \in 1..Len(stored) : ~ShortMatches(stored, i, call.short)
  /\ call.out.status \in {"ok", "KeyError"}

\* C16: resolve_short_citation returns the first stored record, in the order of the
\* latest process_document, whose volume and reporter both occur in the short text,
\* fails exactly when no stored record matches (so always on an empty mapping), and
\* leaves the stored mapping and last_short_key as they were.
C16_FirstStoredMatchWins ==
  [][ret'.op = "resolve_short_citation" /\ ret' # ret
       => /\ FirstMatchOf(ret', full_citations[ret'.self])
          /\ full_citations[ret'.self] = <<>> => ret'.out.status = "KeyError"
          /\ UNCHANGED <<full_citations, last_short_key>>]_vars

\* C16 witness: with Alpha stored before Gamma, a short text naming both volumes
\* resolves to Alpha.
C16_AmbiguousShortTakesFirst ==
  /\ ret.op = "resolve_short_citation" /\ ret.short = SH_Both
  /\ Len(full_citations[ret.self]) = 2
  /\ ShortMatches(full_citations[ret.self], 1, SH_Both)
  /\ ShortMatches(full_citations[ret.self], 2, SH_Both)
  /\ ret.out.status = "ok"
  /\ ret.out.value = Rec_Alpha

\* a rendered string without its emphasis markers
StripMarkers(t) == StrReplace(StrReplace(t, OpenTag("italic"), <<>>), CloseTag("italic"), <<>>)

\* the outcome of validating a rendered string again equals the first record
ReparsesTo(again, comps) == again.status = "ok" /\ again.comps = comps

\* C17: the string rendered for a valid citation, without its emphasis markers,
\* passes validate_full_citation again and parses to the same record.
C17_RenderedTextValidatesAgain ==
  ret.op = "validate_full_citation" /\ ret.out.status = "ok"
    => ReparsesTo(validate_full_citation(StripMarkers(ret.out.formatted), None, None),
                  ret.out.comps)

\* C17 witness: the rendering of "Brown v. Board, 347 U.S. 483 (U.S. 1954)" has lost
\* the comma after the case name, and the structural validator rejects it.
C17_BrownRenderedLosesComma ==
  /\ ret.op = "validate_full_citation" /\ ret.citation = T_Brown /\ ret.out.status = "ok"
  /\ StripMarkers(ret.out.formatted) =
       <<"B","r","o","w","n"," ","v","."," ","B","o","a","r","d"," ","3","4","7"," ","U",".","S","."," ","4","8","3"," ","(","U",".","S","."," ","1","9","5","4",")">>
  /\ validate_full_citation(StripMarkers(ret.out.formatted), None, None).status
       = "CitationValidationException"
  /\ validate_full_citation(StripMarkers(ret.out.formatted), None, None).errors[1].field = "comma"

\* CaseName Volume Reporter Page[, Pinpoint] (Court Year) of a record, the case name
\* between emphasis markers and nothing else changed
PlainRendering(comps) ==
  OpenTag("italic") \o comps.case_name \o CloseTag("italic") \o <<" ">> \o comps.volume
    \o <<" ">> \o comps.reporter \o <<" ">> \o comps.page
    \o (IF comps.pinpoint = None THEN <<>> ELSE <<",", " ">> \o comps.pinpoint)
    \o <<" ", "(">> \o comps.court \o <<" ">> \o comps.year \o <<")">>

\* the record the grammar yields for a valid text, before the case name is cleaned
ParsedOf(citation) ==
  GroupDict(CITATION_PATTERN(
    abbreviate_journals_in_citation(abbreviate_months_in_citation(citation))))

\* how many times pat occurs in t
Occurrences(t, pat) == Cardinality({i \in 1..Len(t) : MatchAt(t, i, pat)})

\* C18: the rendering of a valid citation is CaseName Volume Reporter Page[, Pinpoint]
\* (Court Year) with the case name, its trailing commas stripped, wrapped in emphasis
\* markers exactly once and no marker in the other fields.
C18_OnlyCaseNameWrapped ==
  ret.op = "validate_full_citation" /\ ret.out.status = "ok"
    => /\ ret.out.formatted = PlainRendering(ret.out.comps)
       /\ ret.out.comps.case_name = RStripSet(ParsedOf(ret.citation).case_name, {","})
       /\ Occurrences(ret.out.formatted, OpenTag("italic")) = 1

\* C18 witness: in "Doe, 10 U.S. 100 (Doe County 1990)" the court is wrapped too
C18_CourtWrappedWithCaseName ==
  /\ ret.op = "validate_full_citation" /\ ret.citation = T_Doe /\ ret.out.status = "ok"
  /\ ret.out.comps.case_name = <<"D","o","e">>
  /\ Occurrences(ret.out.formatted, OpenTag("italic")) = 2
  /\ Contains(ret.out.formatted,
              <<"(">> \o OpenTag("italic") \o <<"D","o","e">> \o CloseTag("italic"))

\* the text after the Text Normalizer
Normalised(citation) == abbreviate_journals_in_citation(abbreviate_months_in_citation(citation))

\* the reporter checks of the Semantic Validator pass for a parsed record
ReporterChecksPass(comps) ==
  comps.reporter \in ALLOWED_REPORTERS /\ validate_reporter_for_court(comps)

\* the outcome out of validate_full_citation agrees with the order of the stages,
\* given the structural errors errs of the normalised text and its match m
StagesInOrder(out, errs, m) ==
  /\ errs # <<>> => out = [status |-> "CitationValidationException", errors |-> errs]
  /\ out.status = "ValueError" => errs = <<>> /\ m.matched
  /\ out.status = "ValueError" /\ ReporterChecksPass(GroupDict(m))
       => out.message \notin {"Reporter not allowed", "Reporter not valid for court"}
  /\ out.status = "ValueError" /\ ~ReporterChecksPass(GroupDict(m))
       => out.message \in {"Reporter not allowed", "Reporter not valid for court"}
  /\ out.status = "ok" => errs = <<>> /\ m.matched /\ ReporterChecksPass(GroupDict(m))

\* the record handed to the renderer carries the normalised case name
CaseNameNormalised(out, m) ==
  out.status = "ok"
    => /\ ~omit_words_in_case_name(m.case_name).raised
       /\ out.comps.case_name = omit_words_in_case_name(m.case_name).name
       /\ out.formatted = format_citation(out.comps, "italic")

\* C19: validate_full_citation runs Text Normalizer, Structural Validator, Grammar
\* Parser, Semantic Validator, Case-Name Normalizer and Renderer in this order: a
\* structural failure is raised as one aggregate before any semantic check or
\* lookup, a semantic failure needs a text that parsed, and a successful call renders
\* the record whose case name the Case-Name Normalizer has rewritten.
C19_StagesRunInOrder ==
  ret.op = "validate_full_citation"
    => /\ StagesInOrder(ret.out, _collect_format_errors(Normalised(ret.citation)),
                        CITATION_PATTERN(Normalised(ret.citation)))
       /\ CaseNameNormalised(ret.out, CITATION_PATTERN(Normalised(ret.citation)))

\* C19: the order of the stages without the Case-Name Normalizer
C19_StagesBeforeNormalizerInOrder ==
  ret.op = "validate_full_citation"
    => StagesInOrder(ret.out, _collect_format_errors(Normalised(ret.citation)),
                     CITATION_PATTERN(Normalised(ret.citation)))

\* C19 witness: "John Doe v. Richard Roe" is rendered as parsed, where the Case-Name
\* Normalizer gives "Doe v. Roe"
C19_FirstNamesKept ==
  /\ ret.op = "validate_full_citation" /\ ret.citation = T_JohnDoe /\ ret.out.status = "ok"
  /\ omit_words_in_case_name(ret.out.comps.case_name).name
       = <<"D","o","e"," ","v","."," ","R","o","e">>
  /\ ret.out.comps.case_name = ParsedOf(T_JohnDoe).case_name
  /\ Contains(ret.out.formatted, <<"J","o","h","n"," ","D","o","e">>)

\* the fields of an error list, in its order
FieldsOf(errors) == [n \in 1..Len(errors) |-> errors[n].field]

\* an error list of the structural validator for the text t carries the generic
\* error exactly when checks 1 to 6 pass and the grammar fails, and then alone; an
\* empty list means that the grammar matches
FallbackExactlyWhenNeeded(errors, t) ==
  /\ (\E n \in 1..Len(errors) : errors[n].field = "overall")
       <=> /\ \A i \in 1..6 : ~ViolatesCheck(t, CheckOrder[i])
           /\ ~CITATION_PATTERN(t).matched
  /\ (\E n \in 1..Len(errors) : errors[n].field = "overall") => Len(errors) = 1
  /\ errors = <<>> => CITATION_PATTERN(t).matched

\* C20: the structural validator emits the generic error exactly when none of the
\* checks 1 to 6 fired and the grammar does not match, so a list holding it has
\* length 1 and a text without structural errors parses; every failure that
\* validate_full_citation raises for the structure carries a non-empty list, and
\* never the unable-to-parse error.
C20_GenericErrorOnlyAsFallback ==
  /\ ret.op = "_collect_format_errors" => FallbackExactlyWhenNeeded(ret.out, ret.citation)
  /\ ret.op = "validate_full_citation" /\ ret.out.status = "CitationValidationException"
       => /\ ret.out.errors # <<>>
          /\ \A n \in 1..Len(ret.out.errors) : ret.out.errors[n].field # "parse"
          /\ FallbackExactlyWhenNeeded(ret.out.errors, Normalised(ret.citation))

\* C20 witness: "A v. B, 1 Xyz 2 (U.S. 1954)" passes the six checks, does not match
\* the grammar, and is refused with the generic error alone.
C20_UnknownReporterGetsGenericError ==
  /\ ret.op = "validate_full_citation" /\ ret.citation = T_Xyz
  /\ \A i \in 1..6 : ~ViolatesCheck(T_Xyz, CheckOrder[i])
  /\ ~CITATION_PATTERN(T_Xyz).matched
  /\ ret.out.status = "CitationValidationException"
  /\ FieldsOf(ret.out.errors) = <<"overall">>

\* ---------------------------------------------------------------------------
\* Offsets of the structural validator's errors

\* an error's offsets mark a span of the text: 0 <= start <= end <= len
WellFormedSpan(e, t) ==
  /\ 0 <= e.start
  /\ e.start <= e.end
  /\ e.end <= Len(t)

\* the errors of the last _collect_format_errors call whose span is not inside the text
IllFormedErrors ==
  IF ret.op = "_collect_format_errors"
  THEN {i \in 1..Len(ret.out) : ~WellFormedSpan(ret.out[i], ret.citation)}
  ELSE {}

\* C21: every CitationError that _collect_format_errors produces for a text t
\* has offsets with 0 <= start <= end <= len(t), whichever check produced it.
C21_ErrorOffsetsInsideText ==
  IllFormedErrors = {}

\* C21, the case that fails: "A v. B, 1 U.S. 2 ( 1954)" has an empty court; the
\* court error starts after "(" (18) and ends at the first space of the text (1).
C21_CourtErrorEndsBeforeItStarts ==
  /\ ret.op = "_collect_format_errors"
  /\ ret.citation = <<"A"," ","v","."," ","B",","," ","1"," ","U",".","S","."," ","2"," ",
                      "("," ","1","9","5","4",")">>
  /\ Len(ret.out) = 1
  /\ ret.out[1].field = "court"
  /\ ret.out[1].start = 18
  /\ ret.out[1].end = 1

====
